---- MODULE Spec2Model ----
(***************************************************************************)
(* Model of the channel-catalog synchronisation and stream-resolution      *)
(* pipeline of michael1900/Mod: the playlist generator (m3u8_vavoo.py),    *)
(* the playlist parser, the channel cache, the signature cache, the        *)
(* periodic refresh thread and the stream resolver (app.py).               *)
(*                                                                         *)
(* Text is modelled character by character: a string of the program is a   *)
(* sequence of one-character strings, a playlist file is a sequence of     *)
(* lines.                                                                  *)
(***************************************************************************)
EXTENDS Integers, Sequences, FiniteSets, TLC

VARIABLES
    m3u8_file,      \* channels.m3u8 (M3U8_FILE)
    p_items,        \* the raw items handed to generate_m3u
    p_parsed,       \* the list parse_m3u8_to_channels built from the file
    p_pc,           \* "idle", "start", "written", "parsed"
    f_pc,           \* get_channel_list: "idle", "loop", "done"
    f_signature,    \* its argument `signature`
    f_group,        \* its argument `group`
    f_cursor,       \* its local `cursor`
    f_all_items,    \* its local `all_items`
    f_requests,     \* the catalog requests posted so far: [cursor, group, signature]
    f_received,     \* per request, the number of items received, or -1 for a failure
    channels_file,          \* data/channels_data.json (CHANNELS_FILE)
    chiave_exists,          \* os.path.exists(CHIAVE_SCRIPT)
    vavoo_signature,        \* the global vavoo_signature
    vavoo_signature_age,    \* time.time() - vavoo_signature_timestamp, saturated
    channels_data_cache,    \* the global channels_data_cache
    channels_data_age,      \* time.time() - channels_data_timestamp, saturated
    thr,                    \* the two threads: "req" (main thread: start-up, then the
                            \* event loop serving one request at a time) and "ref"
                            \* (refresh_channels_periodically)
    hist,                   \* the list the last completed get_channels_data returned
    env                     \* the surroundings of this run (never changes)

persistVars == <<p_items, p_parsed, p_pc>>
fetchVars == <<f_pc, f_signature, f_group, f_cursor, f_all_items, f_requests, f_received>>
sysVars == <<channels_file, chiave_exists, vavoo_signature, vavoo_signature_age,
             channels_data_cache, channels_data_age, thr, hist, env>>
vars == <<m3u8_file, persistVars, fetchVars, sysVars>>

(***************************************************************************)
(* Python string primitives                                                *)
(***************************************************************************)
Chars(s) == [i \in 1..Len(s) |-> SubSeq(s, i, i)]

UPPERCASE == Chars("ABCDEFGHIJKLMNOPQRSTUVWXYZ")
LOWERCASE == Chars("abcdefghijklmnopqrstuvwxyz")

IndexIn(c, alphabet) ==
    IF \E i \in 1..Len(alphabet) : alphabet[i] = c
    THEN CHOOSE i \in 1..Len(alphabet) : alphabet[i] = c
    ELSE 0

\* str.lower() / str.upper() on one character
LowerChar(c) == IF IndexIn(c, UPPERCASE) > 0 THEN LOWERCASE[IndexIn(c, UPPERCASE)] ELSE c
UpperChar(c) == IF IndexIn(c, LOWERCASE) > 0 THEN UPPERCASE[IndexIn(c, LOWERCASE)] ELSE c

\* str.lower()
Lower(s) == [i \in 1..Len(s) |-> LowerChar(s[i])]

IsSpace(c) == c = " "
IsLetter(c) == IndexIn(c, UPPERCASE) > 0 \/ IndexIn(c, LOWERCASE) > 0

\* str.strip()
Strip(s) ==
    IF \A i \in 1..Len(s) : IsSpace(s[i]) THEN <<>>
    ELSE LET first == CHOOSE i \in 1..Len(s) :
                          ~IsSpace(s[i]) /\ \A j \in 1..(i-1) : IsSpace(s[j])
             last  == CHOOSE i \in 1..Len(s) :
                          ~IsSpace(s[i]) /\ \A j \in (i+1)..Len(s) : IsSpace(s[j])
         IN SubSeq(s, first, last)

\* sub in s   (Python substring test)
Contains(sub, s) ==
    \E i \in 1..(Len(s) - Len(sub) + 1) : SubSeq(s, i, i + Len(sub) - 1) = sub

\* s.startswith(prefix)
StartsWith(s, prefix) == Len(s) >= Len(prefix) /\ SubSeq(s, 1, Len(prefix)) = prefix

\* s.replace(a, b) for one-character a and b
ReplaceChar(s, a, b) == [i \in 1..Len(s) |-> IF s[i] = a THEN b ELSE s[i]]

\* str.split(): the maximal runs of non-whitespace characters, in order
RECURSIVE Split(_)
Split(s) ==
    LET t == Strip(s)
    IN IF t = <<>> THEN <<>>
       ELSE LET n == IF \E i \in 1..Len(t) : IsSpace(t[i])
                     THEN (CHOOSE i \in 1..Len(t) :
                              IsSpace(t[i]) /\ \A j \in 1..(i-1) : ~IsSpace(t[j])) - 1
                     ELSE Len(t)
            IN <<SubSeq(t, 1, n)>> \o Split(SubSeq(t, n + 1, Len(t)))

\* str.capitalize()
Capitalize(w) ==
    [i \in 1..Len(w) |-> IF i = 1 THEN UpperChar(w[i]) ELSE LowerChar(w[i])]

\* " ".join(words)
RECURSIVE JoinSpace(_)
JoinSpace(words) ==
    IF words = <<>> THEN <<>>
    ELSE IF Len(words) = 1 THEN words[1]
    ELSE words[1] \o <<" ">> \o JoinSpace(Tail(words))

\* str(n) for the small non-negative integers the parser formats
DIGITS == Chars("0123456789")
RECURSIVE IntToChars(_)
IntToChars(n) ==
    IF n < 10 THEN <<DIGITS[n + 1]>>
    ELSE IntToChars(n \div 10) \o <<DIGITS[(n % 10) + 1]>>

\* line.split('=', 1)[1]: what follows the first '='
AfterFirstEquals(line) ==
    LET p == CHOOSE i \in 1..Len(line) :
                 line[i] = "=" /\ \A j \in 1..(i-1) : line[j] # "="
    IN SubSeq(line, p + 1, Len(line))

\* re.sub(r"\.[cs]$", "", name, flags=re.IGNORECASE)
StripLocaleSuffix(name) ==
    IF Len(name) >= 2 /\ name[Len(name) - 1] = "."
       /\ LowerChar(name[Len(name)]) \in {"c", "s"}
    THEN SubSeq(name, 1, Len(name) - 2)
    ELSE name

(***************************************************************************)
(* Configuration of the generator (m3u8_vavoo.py): a part of the built-in  *)
(* fallback data, enough for every branch of the compiler to be taken.     *)
(***************************************************************************)
CHANNEL_FILTERS == <<Chars("sky"), Chars("fox"), Chars("rai")>>

CHANNEL_REMOVE == <<Chars("telepace"), Chars("avengers")>>

\* a dict in iteration order: <<category, keywords>>
CATEGORY_KEYWORDS ==
    << <<Chars("SKY"), <<Chars("sky uno"), Chars("fox")>> >>,
       <<Chars("RAI"), <<Chars("rai")>> >>,
       <<Chars("ALTRI"), <<>> >> >>

\* a dict: <<key, value>>
CHANNEL_LOGOS ==
    << <<Chars("sky uno .c"), Chars("https://logos/sky-uno-it.png")>> >>

ALTRI == Chars("ALTRI")
KEY_PLACEHOLDER == Chars("[$KEY$]")

\* dict.get(key, default) on a dict kept as a sequence of <<key, value>>
DictHas(d, k) == \E i \in 1..Len(d) : d[i][1] = k
DictGet(d, k, default) ==
    IF DictHas(d, k) THEN d[CHOOSE i \in 1..Len(d) : d[i][1] = k][2] ELSE default

\* d[k] = v on a dict kept as a sequence of <<key, value>> (insertion order kept)
DictSet(d, k, v) ==
    IF DictHas(d, k)
    THEN [i \in 1..Len(d) |-> IF d[i][1] = k THEN <<k, v>> ELSE d[i]]
    ELSE Append(d, <<k, v>>)

(***************************************************************************)
(* The compiler (m3u8_vavoo.py)                                            *)
(***************************************************************************)
sanitize_tvg_id(channel_name) ==
    JoinSpace([i \in 1..Len(Split(Strip(StripLocaleSuffix(channel_name)))) |->
                  Capitalize(Split(Strip(StripLocaleSuffix(channel_name)))[i])])

\* any(keyword.lower() in lower_name for keyword in keywords)
AnyKeywordIn(keywords, lower_name) ==
    \E k \in 1..Len(keywords) : Contains(Lower(keywords[k]), lower_name)

\* get_category returning the last category that matches instead of the first
get_category_LastMatch(channel_name, category_keywords) ==
    LET lower_name == Lower(channel_name)
        hits == {i \in 1..Len(category_keywords) :
                    AnyKeywordIn(category_keywords[i][2], lower_name)}
    IN IF hits = {} THEN ALTRI
       ELSE category_keywords[CHOOSE i \in hits : \A j \in hits : i >= j][1]

get_category(channel_name, category_keywords) ==
    LET lower_name == Lower(channel_name)
        hits == {i \in 1..Len(category_keywords) :
                    AnyKeywordIn(category_keywords[i][2], lower_name)}
    IN IF hits = {} THEN ALTRI
       ELSE category_keywords[CHOOSE i \in hits : \A j \in hits : i <= j][1]

PLACEHOLDER_PREFIX == Chars("https://placehold.co/400x400?text=")

get_logo_url(channel_name, channel_logos) ==
    LET logo_url == DictGet(channel_logos, Lower(channel_name), <<>>)
        clean0 == Strip(StripLocaleSuffix(channel_name))
        clean_name == IF Len(clean0) > 3 THEN SubSeq(clean0, 1, Len(clean0) - 3)
                      ELSE clean0
        formatted_name == ReplaceChar(clean_name, " ", "+")
    IN IF logo_url # <<>> THEN logo_url
       ELSE PLACEHOLDER_PREFIX \o formatted_name

\* The fixed playback headers of an entry (the three http-* directives).
FIXED_HEADERS ==
    << <<Chars("user-agent"), Chars("okhttp/4.11.0")>>,
       <<Chars("origin"), Chars("https://vavoo.to/")>>,
       <<Chars("referer"), Chars("https://vavoo.to/")>> >>

\* Does generate_m3u write an entry for this item?
\* IsWritten with the inclusion test taken before (and without) the removal test
IsWritten_InclusionOnly(item, channel_filters, channel_remove) ==
    /\ AnyKeywordIn(channel_filters, Lower(item.name))
    /\ item.url # <<>>

IsWritten(item, channel_filters, channel_remove) ==
    /\ ~AnyKeywordIn(channel_remove, Lower(item.name))
    /\ AnyKeywordIn(channel_filters, Lower(item.name))
    /\ item.url # <<>>

\* The fields generate_m3u computes for an item it writes.
CompileEntry(item, category_keywords, channel_logos) ==
    [id |-> sanitize_tvg_id(item.name),
     name |-> sanitize_tvg_id(item.name),
     genre |-> get_category(item.name, category_keywords),
     logo |-> get_logo_url(item.name, channel_logos),
     headers |-> FIXED_HEADERS,
     signature_placeholder |-> KEY_PLACEHOLDER,
     url |-> item.url]

\* The compiled entries, in input order.
RECURSIVE CompiledEntries(_, _, _, _, _)
CompiledEntries(items, channel_filters, channel_remove, category_keywords, channel_logos) ==
    IF items = <<>> THEN <<>>
    ELSE (IF IsWritten(Head(items), channel_filters, channel_remove)
          THEN <<CompileEntry(Head(items), category_keywords, channel_logos)>>
          ELSE <<>>)
         \o CompiledEntries(Tail(items), channel_filters, channel_remove,
                            category_keywords, channel_logos)

Q == <<"\"">>

\* WriteEntry without the signature-placeholder directive (as the list variant
\* of the generator writes its entries).
WriteEntry_NoSignatureLine(e) ==
    << Chars("#EXTINF:-1 tvg-id=") \o Q \o e.id \o Q
         \o Chars(" tvg-name=") \o Q \o e.name \o Q
         \o Chars(" tvg-logo=") \o Q \o e.logo \o Q
         \o Chars(" group-title=") \o Q \o e.genre \o Q
         \o <<",">> \o e.name,
       Chars("#EXTVLCOPT:http-user-agent=") \o e.headers[1][2],
       Chars("#EXTVLCOPT:http-origin=") \o e.headers[2][2],
       Chars("#EXTVLCOPT:http-referrer=") \o e.headers[3][2],
       e.url >>

\* The six lines written per entry.
WriteEntry(e) ==
    << Chars("#EXTINF:-1 tvg-id=") \o Q \o e.id \o Q
         \o Chars(" tvg-name=") \o Q \o e.name \o Q
         \o Chars(" tvg-logo=") \o Q \o e.logo \o Q
         \o Chars(" group-title=") \o Q \o e.genre \o Q
         \o <<",">> \o e.name,
       Chars("#EXTVLCOPT:http-user-agent=") \o e.headers[1][2],
       Chars("#EXTVLCOPT:http-origin=") \o e.headers[2][2],
       Chars("#EXTVLCOPT:http-referrer=") \o e.headers[3][2],
       Chars("#EXTVLCOPT:mediahubmx-signature=") \o e.signature_placeholder,
       e.url >>

RECURSIVE WriteEntries(_)
WriteEntries(entries) ==
    IF entries = <<>> THEN <<>>
    ELSE WriteEntry(Head(entries)) \o WriteEntries(Tail(entries))

M3U_HEADER == Chars("#EXTM3U url-tvg=") \o Q \o Chars("http://epg-guide.com/it.gz") \o Q

\* A file of the working directory: absent, or its lines.
NoFile == [exists |-> FALSE, lines |-> <<>>]
FileOf(lines) == [exists |-> TRUE, lines |-> lines]

\* generate_m3u: the content of channels.m3u8 after the call, given its content
\* before.  With no items the file is not opened.
generate_m3u(items, signature, channel_filters, channel_remove, category_keywords, channel_logos, before) ==
    IF items = <<>> THEN before
    ELSE FileOf(<<M3U_HEADER>>
                \o WriteEntries(CompiledEntries(items, channel_filters, channel_remove,
                                                category_keywords, channel_logos)))

(***************************************************************************)
(* The list variant of the generator (lista.py)                            *)
(***************************************************************************)
\* s.replace(c, "") for a one-character c
RemoveChar(s, c) == SelectSeq(s, LAMBDA x : x # c)

\* re.sub(r"[\s.][a-zA-Z]$", "", name).replace(" ", "").replace(".", "")
sanitize_channel_name(name) ==
    LET cut == IF Len(name) >= 2
                  /\ (IsSpace(name[Len(name) - 1]) \/ name[Len(name) - 1] = ".")
                  /\ IsLetter(name[Len(name)])
               THEN SubSeq(name, 1, Len(name) - 2)
               ELSE name
    IN RemoveChar(RemoveChar(cut, " "), ".")

\* get_category of lista.py: `keyword in lower_name`, the keyword as configured
lista_get_category(channel_name, category_keywords) ==
    LET lower_name == Lower(channel_name)
        hits == {i \in 1..Len(category_keywords) :
                    \E k \in 1..Len(category_keywords[i][2]) :
                        Contains(category_keywords[i][2][k], lower_name)}
    IN IF hits = {} THEN ALTRI
       ELSE category_keywords[CHOOSE i \in hits : \A j \in hits : i <= j][1]

(***************************************************************************)
(* The playlist parser (app.py, parse_m3u8_to_channels)                    *)
(***************************************************************************)
\* Python's None, where a string may stand
NONE == <<"None">>

\* re.search(key + '"([^"]+)"', line): the group of the leftmost match, or NONE.
AttrSearch(line, key) ==
    LET L == Len(key) + 1
        open == key \o Q
        starts == {i \in 1..(Len(line) - L - 1) :
                      /\ SubSeq(line, i, i + L - 1) = open
                      /\ line[i + L] # "\""
                      /\ \E j \in (i + L + 1)..Len(line) : line[j] = "\""}
    IN IF starts = {} THEN NONE
       ELSE LET i == CHOOSE x \in starts : \A y \in starts : x <= y
                j == CHOOSE x \in (i + L + 1)..Len(line) :
                         line[x] = "\"" /\ \A y \in (i + L + 1)..(x - 1) : line[y] # "\""
            IN SubSeq(line, i + L, j - 1)

\* re.search(r',([^\n]+)$', line): the group of the leftmost match, or NONE.
NameSearch(line) ==
    LET commas == {i \in 1..(Len(line) - 1) : line[i] = ","}
    IN IF commas = {} THEN NONE
       ELSE SubSeq(line, (CHOOSE x \in commas : \A y \in commas : x <= y) + 1, Len(line))

\* get_channel_category comparing the keyword as configured, not lower-cased
get_channel_category_CaseSensitive(channel_name, category_keywords) ==
    LET channel_name_lower == Lower(channel_name)
        hits == {i \in 1..Len(category_keywords) :
                    \E k \in 1..Len(category_keywords[i][2]) :
                        Contains(category_keywords[i][2][k], channel_name_lower)}
    IN IF hits = {} THEN ALTRI
       ELSE category_keywords[CHOOSE i \in hits : \A j \in hits : i <= j][1]

\* get_channel_category (app.py): the category of a name, from category_keywords.json
get_channel_category(channel_name, category_keywords) ==
    LET channel_name_lower == Lower(channel_name)
        hits == {i \in 1..Len(category_keywords) :
                    \E k \in 1..Len(category_keywords[i][2]) :
                        Contains(Lower(category_keywords[i][2][k]), channel_name_lower)}
    IN IF hits = {} THEN ALTRI
       ELSE category_keywords[CHOOSE i \in hits : \A j \in hits : i <= j][1]

\* ParseExtinf numbering the fallback id from 1
ParseExtinf_CountsFromOne(line, n, category_keywords) ==
    LET tvg_id == AttrSearch(line, Chars("tvg-id="))
        nm == NameSearch(line)
        name == IF nm # NONE THEN Strip(nm) ELSE Chars("Channel ") \o IntToChars(n)
        genre == AttrSearch(line, Chars("group-title="))
        logo == AttrSearch(line, Chars("tvg-logo="))
    IN [id |-> IF tvg_id # NONE THEN Lower(ReplaceChar(tvg_id, " ", "-"))
               ELSE Chars("channel-") \o IntToChars(n + 1),
        name |-> name,
        genre |-> IF genre # NONE THEN genre
                  ELSE get_channel_category(name, category_keywords),
        logo |-> IF logo # NONE THEN logo ELSE <<>>]

\* The '#EXTINF:' branch: the new channel dict.
ParseExtinf(line, n, category_keywords) ==
    LET tvg_id == AttrSearch(line, Chars("tvg-id="))
        nm == NameSearch(line)
        name == IF nm # NONE THEN Strip(nm) ELSE Chars("Channel ") \o IntToChars(n)
        genre == AttrSearch(line, Chars("group-title="))
        logo == AttrSearch(line, Chars("tvg-logo="))
    IN [id |-> IF tvg_id # NONE THEN Lower(ReplaceChar(tvg_id, " ", "-"))
               ELSE Chars("channel-") \o IntToChars(n),
        name |-> name,
        genre |-> IF genre # NONE THEN genre
                  ELSE get_channel_category(name, category_keywords),
        logo |-> IF logo # NONE THEN logo ELSE <<>>]

\* ParseHeaderOpt storing the referrer under the key spelt as in the directive
ParseHeaderOpt_ReferrerKey(line, headers) ==
    IF Contains(Chars("http-user-agent="), line)
    THEN DictSet(headers, Chars("user-agent"), AfterFirstEquals(line))
    ELSE IF Contains(Chars("http-origin="), line)
    THEN DictSet(headers, Chars("origin"), AfterFirstEquals(line))
    ELSE IF Contains(Chars("http-referrer="), line)
    THEN DictSet(headers, Chars("referrer"), AfterFirstEquals(line))
    ELSE headers

\* The '#EXTVLCOPT:' branch: the headers dict after the line.
ParseHeaderOpt(line, headers) ==
    IF Contains(Chars("http-user-agent="), line)
    THEN DictSet(headers, Chars("user-agent"), AfterFirstEquals(line))
    ELSE IF Contains(Chars("http-origin="), line)
    THEN DictSet(headers, Chars("origin"), AfterFirstEquals(line))
    ELSE IF Contains(Chars("http-referrer="), line)
    THEN DictSet(headers, Chars("referer"), AfterFirstEquals(line))
    ELSE headers

\* The state of the parsing loop.  `shared` is the index in `channels` of the
\* record whose 'headers' is the very dict object the loop variable `headers`
\* still refers to (0 when there is none): a later update of that dict shows
\* in the record.
ParseInit ==
    [channels |-> <<>>, has_channel |-> FALSE, channel |-> [id |-> <<>>],
     headers |-> <<>>, signature_placeholder |-> NONE, shared |-> 0]

\* One iteration of `for i, line in enumerate(lines)`.
ParseLine(st, raw, category_keywords) ==
    LET line == Strip(raw)
    IN IF StartsWith(line, Chars("#EXTINF:"))
       THEN [st EXCEPT !.has_channel = TRUE,
                       !.channel = ParseExtinf(line, Len(st.channels), category_keywords),
                       !.headers = <<>>,
                       !.signature_placeholder = NONE,
                       !.shared = 0]
       ELSE IF StartsWith(line, Chars("#EXTVLCOPT:"))
       THEN LET h == ParseHeaderOpt(line, st.headers)
            IN [st EXCEPT !.headers = h,
                          !.signature_placeholder =
                              IF ~Contains(Chars("http-user-agent="), line)
                                 /\ ~Contains(Chars("http-origin="), line)
                                 /\ ~Contains(Chars("http-referrer="), line)
                                 /\ Contains(Chars("mediahubmx-signature="), line)
                              THEN AfterFirstEquals(line)
                              ELSE @,
                          !.channels =
                              IF st.shared = 0 THEN @
                              ELSE [@ EXCEPT ![st.shared].headers = h]]
       ELSE IF line # <<>> /\ ~StartsWith(line, <<"#">>) /\ st.has_channel
       THEN [st EXCEPT !.channels =
                           Append(@, [id |-> st.channel.id,
                                      name |-> st.channel.name,
                                      genre |-> st.channel.genre,
                                      logo |-> st.channel.logo,
                                      url |-> line,
                                      headers |-> st.headers,
                                      signature_placeholder |-> st.signature_placeholder]),
                       !.shared = Len(st.channels) + 1,
                       !.has_channel = FALSE]
       ELSE st

RECURSIVE ParseFrom(_, _, _)
ParseFrom(st, lines, category_keywords) ==
    IF lines = <<>> THEN st
    ELSE ParseFrom(ParseLine(st, Head(lines), category_keywords), Tail(lines),
                   category_keywords)

\* The list `channels` parse_m3u8_to_channels builds from the lines of the file.
ParseLines(lines, category_keywords) ==
    ParseFrom(ParseInit, lines, category_keywords).channels

(***************************************************************************)
(* The catalog fetcher (m3u8_vavoo.py, get_channel_list)                   *)
(***************************************************************************)
\* The i-th item of the upstream catalog.
UpstreamItem(i) ==
    [name |-> Chars("Rai ") \o IntToChars(i), url |-> Chars("https://up.example/") \o IntToChars(i)]

\* What one catalog request brings back: a failure (transport error, HTTP
\* error status, unparsable body), or a page of n items from position `cursor`.
PageFailure == [ok |-> FALSE, items |-> <<>>]
PageOf(cursor, n) == [ok |-> TRUE, items |-> [i \in 1..n |-> UpstreamItem(cursor + i)]]

\* One iteration of `while True`: the request is posted with the current cursor
\* and the group filter; a failure or an empty page ends the loop, any other
\* page extends all_items and advances the cursor by its length.
\* the cursor counting pages instead of items
FetchCursorAfter_CountsPages(cursor, items) == cursor + 1

FetchCursorAfter(cursor, items) == cursor + Len(items)

\* The loop as if only a failed request ended it (an empty page is passed over).
FetchStep_ContinuesAfterEmpty(st, group, signature, resp) ==
    [cursor |-> IF resp.ok /\ resp.items # <<>>
                THEN FetchCursorAfter(st.cursor, resp.items) ELSE st.cursor,
     all_items |-> IF resp.ok THEN st.all_items \o resp.items ELSE st.all_items,
     requests |-> Append(st.requests,
                         [cursor |-> st.cursor, group |-> group, signature |-> signature]),
     received |-> Append(st.received, IF resp.ok THEN Len(resp.items) ELSE -1),
     done |-> ~resp.ok]

\* The loop as if a failed request discarded what had been accumulated.
FetchStep_DiscardsOnFailure(st, group, signature, resp) ==
    [cursor |-> IF resp.ok /\ resp.items # <<>>
                THEN FetchCursorAfter(st.cursor, resp.items) ELSE st.cursor,
     all_items |-> IF resp.ok THEN st.all_items \o resp.items ELSE <<>>,
     requests |-> Append(st.requests,
                         [cursor |-> st.cursor, group |-> group, signature |-> signature]),
     received |-> Append(st.received, IF resp.ok THEN Len(resp.items) ELSE -1),
     done |-> ~resp.ok \/ resp.items = <<>>]

FetchStep(st, group, signature, resp) ==
    [cursor |-> IF resp.ok /\ resp.items # <<>>
                THEN FetchCursorAfter(st.cursor, resp.items) ELSE st.cursor,
     all_items |-> IF resp.ok THEN st.all_items \o resp.items ELSE st.all_items,
     requests |-> Append(st.requests,
                         [cursor |-> st.cursor, group |-> group, signature |-> signature]),
     received |-> Append(st.received, IF resp.ok THEN Len(resp.items) ELSE -1),
     done |-> ~resp.ok \/ resp.items = <<>>]

FetchStart == [cursor |-> 0, all_items |-> <<>>, requests |-> <<>>, received |-> <<>>,
               done |-> FALSE]

(***************************************************************************)
(* The generator script (m3u8_vavoo.py, main) run as a subprocess          *)
(***************************************************************************)
\* get_channel_list against an upstream that answers the successive requests
\* with `responses`: the loop runs until a failure or an empty page.
RECURSIVE RunFetch(_, _, _, _)
RunFetch(st, group, signature, responses) ==
    IF st.done \/ responses = <<>> THEN st
    ELSE RunFetch(FetchStep(st, group, signature, Head(responses)),
                  group, signature, Tail(responses))

get_channel_list(signature, group, responses) ==
    RunFetch(FetchStart, group, signature, responses).all_items

\* One run of the script against an upstream described by `run`: auth is the
\* addonSig the ping endpoint answers (NONE when get_auth_signature fails),
\* pages the answers of the catalog endpoint.  The exit code is 1 when no
\* signature was obtained (sys.exit(1)), otherwise 0; stdout is never empty
\* (the progress lines are printed before anything else).
main(run, before) ==
    IF run.auth = NONE
    THEN [returncode |-> 1, file |-> before]
    ELSE [returncode |-> 0,
          file |-> generate_m3u(get_channel_list(run.auth, Chars("Italy"), run.pages),
                                run.auth, CHANNEL_FILTERS, CHANNEL_REMOVE, CATEGORY_KEYWORDS,
                                CHANNEL_LOGOS, before)]

\* the first line the script prints
PROGRESS_TEXT == Chars("Getting authentication signature...")

\* generate_m3u8_list (app.py): runs the script; True when it exited 0 and
\* channels.m3u8 exists.
generate_m3u8_list(run, before) ==
    LET r == main(run, before)
    IN [ok |-> r.returncode = 0 /\ r.file.exists, file |-> r.file]

(***************************************************************************)
(* The stream resolver (app.py, resolve_stream_url)                        *)
(***************************************************************************)
\* clean_channel_name
clean_channel_name(name) ==
    IF Len(name) > 3
       /\ IsSpace(name[Len(name) - 2]) /\ name[Len(name) - 1] = "."
       /\ IsLetter(name[Len(name)])
    THEN SubSeq(name, 1, Len(name) - 3)
    ELSE name

\* quote_plus: an injective encoding of a text, kept symbolic
QuotePlus(v) == <<"quote_plus", v>>

\* `if x:` for a string or None
Truthy(x) == x # NONE /\ x # <<>>

\* What the resolve endpoint does with one request:
\*   "error"    requests.post raises (connection error, timeout)
\*   "non200"   a status code other than 200
\*   "badjson"  status 200, response.json() raises
\*   "notlist"  status 200, the body is not a list
\*   "empty"    status 200, an empty list
\*   "nourl"    status 200, a list whose first element is a dict without "url"
\*   "nondict"  status 200, a list whose first element is not a container
\*              ('"url" in result[0]' raises TypeError)
\*   "ok"       status 200, a list whose first element has "url"
RESOLVE_FAILURES == {"error", "non200", "badjson", "notlist", "empty", "nourl", "nondict"}
RESOLVE_OUTCOMES == RESOLVE_FAILURES \cup {"ok"}

RESOLVED_URL == Chars("https://cdn.example/live.m3u8")

\* the outcomes in which a statement of the try block raises
RESOLVE_RAISES == {"error", "badjson", "nondict"}

\* The try block without its except clause: an exception leaves the function.
ResolveAttempt_NoExcept(stream_url, outcome) ==
    [raised |-> outcome \in RESOLVE_RAISES,
     stream_url |-> IF outcome = "ok" THEN RESOLVED_URL ELSE stream_url]

\* The resolve attempt without the assignment of line 456: the answer is dropped.
ResolveAttempt_KeepsUrl(stream_url, outcome) ==
    [raised |-> FALSE, stream_url |-> stream_url]

\* lines 427-463: the resolve attempt.  Whatever is raised inside the try block
\* is caught (except Exception) and stream_url keeps its value.
ResolveAttempt(stream_url, outcome) ==
    [raised |-> FALSE,
     stream_url |-> IF outcome = "ok" THEN RESOLVED_URL ELSE stream_url]

\* ProxyParams without the loop over the record's headers
ProxyParams_NoHeaders(mediaflow_psw, stream_url, headers, signature) ==
    LET base == << <<Chars("api_password"), mediaflow_psw>>, <<Chars("d"), stream_url>> >>
    IN IF Truthy(signature)
       THEN DictSet(base, Chars("h_mediahubmx-signature"), signature)
       ELSE base

\* lines 465-491 and 493-503: the query parameters of the proxy url
ProxyParams(mediaflow_psw, stream_url, headers, signature) ==
    LET base == << <<Chars("api_password"), mediaflow_psw>>, <<Chars("d"), stream_url>> >>
        RECURSIVE AddHeaders(_, _)
        AddHeaders(ps, hs) ==
            IF hs = <<>> THEN ps
            ELSE AddHeaders(DictSet(ps, Chars("h_") \o hs[1][1], hs[1][2]), Tail(hs))
        withHeaders == AddHeaders(base, headers)
    IN IF Truthy(signature)
       THEN DictSet(withHeaders, Chars("h_mediahubmx-signature"), signature)
       ELSE withHeaders

\* FinalUrl pointing at the proxy host without the manifest endpoint
FinalUrl_NoEndpoint(mediaflow_url, params) ==
    [host |-> mediaflow_url,
     path |-> <<>>,
     query |-> [i \in 1..Len(params) |-> <<QuotePlus(params[i][1]), QuotePlus(params[i][2])>>]]

\* urlencode(params, quote_via=quote_plus) behind the proxy endpoint
FinalUrl(mediaflow_url, params) ==
    [host |-> mediaflow_url,
     path |-> Chars("/proxy/hls/manifest.m3u8"),
     query |-> [i \in 1..Len(params) |-> <<QuotePlus(params[i][1]), QuotePlus(params[i][2])>>]]

\* the resolve endpoint called whether or not there is a signature
CallsResolve_WithoutSignature(channel, signature) ==
    /\ channel.signature_placeholder = KEY_PLACEHOLDER
    /\ ~Contains(Chars("localhost"), channel.url)

\* the resolve endpoint called for every record that is not local
CallsResolve_Always(channel, signature) ==
    ~Contains(Chars("localhost"), channel.url)

\* the resolve endpoint called for local targets too
CallsResolve_LocalToo(channel, signature) ==
    /\ channel.signature_placeholder = KEY_PLACEHOLDER
    /\ Truthy(signature)

\* Does resolve_stream_url call the resolve endpoint?
CallsResolve(channel, signature) ==
    /\ channel.signature_placeholder = KEY_PLACEHOLDER
    /\ Truthy(signature)
    /\ ~Contains(Chars("localhost"), channel.url)

\* resolver.py, resolve_link line 18: is the resolve endpoint called?
LinkCallsResolve(link) == ~Contains(Chars("localhost"), link)

\* resolver.py, resolve_link: the link itself when it is local; otherwise the
\* url of the answer, or None when the request fails, raise_for_status raises
\* or the answer has no url (every exception is caught, lines 42-44)
resolve_link(link, signature, outcome) ==
    IF ~LinkCallsResolve(link) THEN link
    ELSE IF outcome = "ok" THEN RESOLVED_URL
    ELSE NONE

\* resolve_stream_url, given the value get_vavoo_signature returned (NONE when
\* it was not called) and the outcome of the resolve request (when made).
resolve_stream_url(channel, mediaflow_url, mediaflow_psw, signature, outcome) ==
    LET attempt == IF CallsResolve(channel, signature)
                   THEN ResolveAttempt(channel.url, outcome)
                   ELSE [raised |-> FALSE, stream_url |-> channel.url]
        sig == IF channel.signature_placeholder = KEY_PLACEHOLDER THEN signature ELSE NONE
    IN [raised |-> attempt.raised,
        url |-> FinalUrl(mediaflow_url,
                         ProxyParams(mediaflow_psw, attempt.stream_url, channel.headers, sig)),
        title |-> clean_channel_name(channel.name)]

PersistIdle == p_items = <<>> /\ p_parsed = <<>> /\ p_pc = "idle"
FetchIdle ==
    /\ f_pc = "idle" /\ f_signature = <<>> /\ f_group = <<>> /\ f_cursor = 0
    /\ f_all_items = <<>> /\ f_requests = <<>> /\ f_received = <<>>

(***************************************************************************)
(* The state of the application (app.py)                                   *)
(***************************************************************************)
SIG_TTL == 10800
CACHE_TTL == 3600
REFRESH_SLEEP == 1200

\* Time passes in steps of REFRESH_SLEEP.  The program only ever compares
\* time.time() - timestamp with a ttl, so the model keeps these differences,
\* and stops counting once a difference has passed its ttl.
SIG_AGE_MAX == SIG_TTL + REFRESH_SLEEP
CACHE_AGE_MAX == CACHE_TTL + REFRESH_SLEEP
Older(age, max) == IF age + REFRESH_SLEEP >= max THEN max ELSE age + REFRESH_SLEEP

\* data/channels_data.json: absent, or the list saved
NoData == [exists |-> FALSE, data |-> <<>>]
DataOf(channels) == [exists |-> TRUE, data |-> channels]

\* load_json_file(CHANNELS_FILE, [])
load_channels_file(file) == IF file.exists THEN file.data ELSE <<>>

\* the example channels of get_channels_data; channel.get gives the defaults
\* for the keys they lack
ExampleChannel(id, name, url, genre) ==
    [id |-> Chars(id), name |-> Chars(name), genre |-> Chars(genre), logo |-> <<>>,
     url |-> Chars(url), headers |-> <<>>, signature_placeholder |-> NONE]

\* lines 370-375 with an empty list
NO_EXAMPLE_CHANNELS == <<>>

EXAMPLE_CHANNELS ==
    << ExampleChannel("rai1-example", "Rai 1", "https://example.com/rai1.m3u8", "RAI"),
       ExampleChannel("canale5-example", "Canale 5", "https://example.com/canale5.m3u8", "MEDIASET"),
       ExampleChannel("skysport-example", "Sky Sport", "https://example.com/skysport.m3u8", "SPORT"),
       ExampleChannel("discovery-example", "Discovery Channel",
                      "https://example.com/discovery.m3u8", "DISCOVERY") >>

\* line 354 with >= in place of >
CacheInvalid_AtTtl(cache, age) == cache = <<>> \/ age >= CACHE_TTL

\* if not channels_data_cache or (current_time - channels_data_timestamp) > 3600
CacheInvalid(cache, age) == cache = <<>> \/ age > CACHE_TTL

\* if not vavoo_signature or (current_time - vavoo_signature_timestamp) > 10800
SignatureInvalid(signature, age) == ~Truthy(signature) \/ age > SIG_TTL

\* The upstream a run of the generator script meets.
SIG_A == Chars("sigA")
FULL_PAGES == <<PageOf(0, 1), PageOf(1, 1), PageOf(2, 0)>>
PARTIAL_PAGES == <<PageOf(0, 1), PageFailure>>
NO_PAGES == <<PageFailure>>

UPSTREAM_RUNS ==
    { [auth |-> NONE, pages |-> <<>>],
      [auth |-> SIG_A, pages |-> FULL_PAGES],
      [auth |-> SIG_A, pages |-> PARTIAL_PAGES],
      [auth |-> SIG_A, pages |-> NO_PAGES] }

\* a run of the script whose authentication request the upstream never answers
SILENT_RUN == [auth |-> <<"silent">>, pages |-> <<>>]

\* a run in which authentication or a catalog page request failed
RunFailed(run) ==
    run.auth = NONE \/ \E i \in 1..Len(run.pages) : ~run.pages[i].ok

\* The files the script can leave (computed once).
FULL_FILE == main([auth |-> SIG_A, pages |-> FULL_PAGES], NoFile).file
PARTIAL_FILE == main([auth |-> SIG_A, pages |-> PARTIAL_PAGES], NoFile).file
FULL_CHANNELS == ParseLines(FULL_FILE.lines, CATEGORY_KEYWORDS)
PARTIAL_CHANNELS == ParseLines(PARTIAL_FILE.lines, CATEGORY_KEYWORDS)

\* parse_m3u8_to_channels on the lines read from the file
ParseFile(file) ==
    IF file = FULL_FILE THEN FULL_CHANNELS
    ELSE IF file = PARTIAL_FILE THEN PARTIAL_CHANNELS
    ELSE ParseLines(file.lines, CATEGORY_KEYWORDS)

\* The proxy of the request (path parameters, or the environment defaults).
MEDIAFLOW_URL == Chars("mfp.example")
MEDIAFLOW_PSW == Chars("secret")

\* The ids asked for ("mediaflow-" removed).
REQUEST_IDS == {Chars("rai-1"), Chars("rai1-example")}

REQUEST_KINDS == {"catalog", "stream", "stream_with_params"}

\* A thread: its position and its locals.
\*   pc             position
\*   k              where the function being executed returns to
\*   kind, id       what the thread is serving ("boot", "cycle", or a request)
\*   channels       the local `channels`
\*   found_empty, found_age   the cache as get_channels_data found it
\*   found_no_data  get_channels_data found no persisted channel data
\*   in_window      the call was made within the ttl window of the list the
\*                  previous call returned
\*   gcd            what is known when get_channels_data returns
\*   channel        original_channel (<<>> or <<record>>)
\*   signature      the value get_vavoo_signature returned
\*   sig_age        the age of that value when it was returned
\*   auth_failed    the authentication attempt of this call failed
\*   outcome        what the resolve endpoint did ("none": no request made)
\*   result         the descriptor returned (<<>> or <<record>>)
\*   failed         the generator run of this refresh cycle met a failure
\*   prev_failed    the one of the previous cycle did
\*   attempts       the scripts the current get_vavoo_signature call has run,
\*                  in order (chiave.py with what it did, or the generator)
Thread(pc) ==
    [pc |-> pc, k |-> "", kind |-> "", id |-> <<>>, channels |-> <<>>,
     found_empty |-> FALSE, found_age |-> 0, found_no_data |-> FALSE,
     in_window |-> FALSE, gcd |-> <<>>, channel |-> <<>>, signature |-> NONE,
     sig_age |-> 0, auth_failed |-> FALSE, outcome |-> "none", result |-> <<>>,
     failed |-> FALSE, prev_failed |-> FALSE, attempts |-> <<>>]

\* What is remembered of the list the last completed get_channels_data call
\* returned:
\*   valid    a call has returned
\*   ret_age  time since the list it returned was loaded
\*   same     channels_data_cache is still that list object
\*   inv      the refresh loop invalidated the cache since that call began
\*   inv_cur  the refresh loop invalidated the cache since the latest call began
\*   obj_age  time since the object now in channels_data_cache was assigned
NoHist == [valid |-> FALSE, ret_age |-> CACHE_AGE_MAX, same |-> FALSE, inv |-> FALSE,
           inv_cur |-> FALSE, obj_age |-> CACHE_AGE_MAX]

SysIdle ==
    /\ channels_file = NoData
    /\ chiave_exists = FALSE
    /\ vavoo_signature = NONE
    /\ vavoo_signature_age = SIG_AGE_MAX
    /\ channels_data_cache = <<>>
    /\ channels_data_age = CACHE_AGE_MAX
    /\ thr = [t \in {"req", "ref"} |-> Thread("off")]
    /\ hist = NoHist
    /\ env = [runs |-> {}, sig_runs |-> {}, chiave_outcomes |-> {}, kinds |-> {}, ids |-> {},
              observe |-> FALSE]

\* What the chiave.py subprocess can do: print a token, print nothing, or exit
\* with a non-zero status (check=True raises).
SIG_C == Chars("sigC")
CHIAVE_OUTCOMES == {"token", "empty", "fail"}

\* The surroundings of a run: what the upstream answers to the runs of the
\* generator script (runs), to its runs as `--get-signature` (sig_runs), what
\* chiave.py does, which requests arrive, and whether the cache is observed.
FULL_ENV ==
    [runs |-> UPSTREAM_RUNS, sig_runs |-> UPSTREAM_RUNS, chiave_outcomes |-> CHIAVE_OUTCOMES,
     kinds |-> REQUEST_KINDS, ids |-> REQUEST_IDS, observe |-> TRUE]

\* After the module is loaded and __main__ is about to generate the list.
SysInit(e) ==
    /\ m3u8_file = NoFile
    /\ PersistIdle
    /\ FetchIdle
    /\ channels_file = NoData
    /\ chiave_exists \in BOOLEAN
    /\ vavoo_signature = NONE
    /\ vavoo_signature_age = SIG_AGE_MAX
    /\ channels_data_cache = <<>>
    /\ channels_data_age = CACHE_AGE_MAX
    /\ thr = [t \in {"req", "ref"} |->
                IF t = "req" THEN [Thread("boot_gen") EXCEPT !.kind = "boot"] ELSE Thread("off")]
    /\ hist = NoHist
    /\ env = e

Init == SysInit(FULL_ENV)

THREADS == {"req", "ref"}

\* hist is kept only in the runs that observe the cache
Observed(h) == IF env.observe THEN h ELSE hist

\* parse_m3u8_to_channels, entered with pc "p_open", returning to thr[t].k.
\* Lines 262-266: the file is opened if it exists; otherwise the generator is
\* run first, and [] is returned if that fails.
ParseOpen(t) ==
    /\ thr[t].pc = "p_open"
    /\ IF m3u8_file.exists
       THEN /\ thr' = [thr EXCEPT ![t].pc = "p_save",
                                  ![t].channels = ParseFile(m3u8_file)]
            /\ UNCHANGED m3u8_file
       ELSE \E run \in env.runs :
              LET g == generate_m3u8_list(run, m3u8_file)
              IN /\ m3u8_file' = g.file
                 /\ thr' = [thr EXCEPT ![t].pc = IF g.ok THEN "p_read" ELSE thr[t].k,
                                       ![t].channels = <<>>]
    /\ UNCHANGED <<persistVars, fetchVars, env, channels_file, chiave_exists, vavoo_signature,
                   vavoo_signature_age, channels_data_cache, channels_data_age, hist>>

\* lines 268-333: the file just generated is read and analysed
ParseRead(t) ==
    /\ thr[t].pc = "p_read"
    /\ thr' = [thr EXCEPT ![t].pc = "p_save", ![t].channels = ParseFile(m3u8_file)]
    /\ UNCHANGED <<m3u8_file, persistVars, fetchVars, env, channels_file, chiave_exists,
                   vavoo_signature, vavoo_signature_age, channels_data_cache,
                   channels_data_age, hist>>

\* lines 335-340: a non-empty result is saved to CHANNELS_FILE, then returned
ParseSave(t) ==
    /\ thr[t].pc = "p_save"
    /\ channels_file' = IF thr[t].channels # <<>> THEN DataOf(thr[t].channels)
                        ELSE channels_file
    /\ thr' = [thr EXCEPT ![t].pc = thr[t].k]
    /\ UNCHANGED <<m3u8_file, persistVars, fetchVars, env, chiave_exists, vavoo_signature,
                   vavoo_signature_age, channels_data_cache, channels_data_age, hist>>

\* the positions at which an authentication subprocess of the thread is running
AUTH_PCS == {"v_chiave", "v_gen"}

\* get_vavoo_signature, entered with pc "v_check", returning to thr[t].k.
\* Line 150: a cached signature that has not expired is returned; otherwise
\* chiave.py is started if it exists, else the generator script.
SigCheck(t) ==
    /\ thr[t].pc = "v_check"
    /\ thr' = [thr EXCEPT ![t].pc =
                  IF ~SignatureInvalid(vavoo_signature, vavoo_signature_age) THEN "v_return"
                  ELSE IF chiave_exists THEN "v_chiave" ELSE "v_gen",
                          ![t].auth_failed = FALSE,
                          ![t].attempts = <<>>]
    /\ UNCHANGED <<m3u8_file, persistVars, fetchVars, env, channels_file, chiave_exists,
                   vavoo_signature, vavoo_signature_age, channels_data_cache,
                   channels_data_age, hist>>

\* where get_vavoo_signature goes on whatever chiave.py did
AfterChiave_AlwaysGenerator(o) == IF o = "hang" THEN "v_hung" ELSE "v_gen"

\* lines 157-162 and 175: after chiave.py, the function returns (a token, or an
\* exception caught) or goes on to the generator script (empty output)
AfterChiave(o) ==
    IF o = "hang" THEN "v_hung" ELSE IF o = "empty" THEN "v_gen" ELSE "v_return"

\* lines 153-162: chiave.py ends.  A non-empty output becomes the signature,
\* stamped with current_time; an empty one falls through to the generator
\* script; a failure is caught at line 175.  subprocess.run is given no
\* timeout: when chiave.py never ends ("hang") the caller waits for ever.
SigChiave(t) ==
    /\ thr[t].pc = "v_chiave"
    /\ \E o \in env.chiave_outcomes :
         /\ thr' = [thr EXCEPT ![t].pc = AfterChiave(o),
                               ![t].auth_failed = (o = "fail"),
                               ![t].attempts = Append(@, <<"chiave.py", o>>)]
         /\ vavoo_signature' = IF o = "token" THEN SIG_C ELSE vavoo_signature
         /\ vavoo_signature_age' = IF o = "token" THEN 0 ELSE vavoo_signature_age
    /\ UNCHANGED <<m3u8_file, persistVars, fetchVars, env, channels_file, chiave_exists,
                   channels_data_cache, channels_data_age, hist>>

\* lines 164-176: `m3u8_vavoo.py --get-signature` ends.  The script ignores its
\* arguments: it runs main(), so it rewrites channels.m3u8, and what it prints
\* is its progress text.  A non-zero exit status raises (check=True) and is
\* caught at line 175; otherwise the stripped output becomes the signature.
\* Neither subprocess.run here nor requests.post in get_auth_signature has a
\* timeout: in a run whose authentication request is never answered the script
\* never ends and the caller waits for ever.
SigGenerator(t) ==
    /\ thr[t].pc = "v_gen"
    /\ \E run \in env.sig_runs :
         IF run = SILENT_RUN
         THEN /\ thr' = [thr EXCEPT ![t].pc = "v_hung",
                                    ![t].attempts = Append(@, <<"m3u8_vavoo.py">>)]
              /\ UNCHANGED <<m3u8_file, vavoo_signature, vavoo_signature_age>>
         ELSE
         LET r == main(run, m3u8_file)
             new_signature == Strip(PROGRESS_TEXT)
             set == r.returncode = 0 /\ Truthy(new_signature)
         IN /\ m3u8_file' = r.file
            /\ thr' = [thr EXCEPT ![t].pc = "v_return",
                                  ![t].auth_failed = (r.returncode # 0),
                                  ![t].attempts = Append(@, <<"m3u8_vavoo.py">>)]
            /\ vavoo_signature' = IF set THEN new_signature ELSE vavoo_signature
            /\ vavoo_signature_age' = IF set THEN 0 ELSE vavoo_signature_age
    /\ UNCHANGED <<persistVars, fetchVars, env, channels_file, chiave_exists,
                   channels_data_cache, channels_data_age, hist>>

\* line 178 (and 162): return vavoo_signature
SigReturn(t) ==
    /\ thr[t].pc = "v_return"
    /\ thr' = [thr EXCEPT ![t].pc = thr[t].k,
                          ![t].signature = vavoo_signature,
                          ![t].sig_age = vavoo_signature_age,
                          ![t].attempts = <<>>]
    /\ UNCHANGED <<m3u8_file, persistVars, fetchVars, env, channels_file, chiave_exists,
                   vavoo_signature, vavoo_signature_age, channels_data_cache,
                   channels_data_age, hist>>

\* __main__, lines 880-881: the list is generated, then analysed
BootGenerate ==
    /\ thr["req"].pc = "boot_gen"
    /\ \E run \in env.runs :
         m3u8_file' = generate_m3u8_list(run, m3u8_file).file
    /\ thr' = [thr EXCEPT !["req"].pc = "p_open", !["req"].k = "boot_done"]
    /\ UNCHANGED <<persistVars, fetchVars, env, channels_file, chiave_exists, vavoo_signature,
                   vavoo_signature_age, channels_data_cache, channels_data_age, hist>>

\* lines 885-891: the refresh thread is started and the server begins to serve
BootDone ==
    /\ thr["req"].pc = "boot_done"
    /\ thr' = [thr EXCEPT !["req"] = Thread("idle"),
                          !["ref"] = [Thread("c_gen") EXCEPT !.kind = "cycle"]]
    /\ UNCHANGED <<m3u8_file, persistVars, fetchVars, env, channels_file, chiave_exists,
                   vavoo_signature, vavoo_signature_age, channels_data_cache,
                   channels_data_age, hist>>

\* A request arrives.  The handlers are coroutines that never await, so the
\* event loop serves one request at a time.  catalog and meta handlers and
\* stream_with_params begin with get_all_channels -> get_channels_data; stream
\* goes straight to the lookup in channels_data_cache.
Request ==
    /\ thr["req"].pc = "idle"
    /\ \E kind \in env.kinds, id \in env.ids :
         thr' = [thr EXCEPT !["req"] =
                    [Thread(IF kind = "stream" THEN "lookup" ELSE "gcd_check")
                       EXCEPT !.kind = kind,
                              !.id = IF kind = "catalog" THEN <<>> ELSE id]]
    /\ UNCHANGED <<m3u8_file, persistVars, fetchVars, env, channels_file, chiave_exists,
                   vavoo_signature, vavoo_signature_age, channels_data_cache,
                   channels_data_age, hist>>

\* get_channels_data, line 354: is the cache empty or older than an hour?
GcdCheck ==
    /\ thr["req"].pc = "gcd_check"
    /\ thr' = [thr EXCEPT
                 !["req"].pc = IF CacheInvalid(channels_data_cache, channels_data_age)
                               THEN "gcd_load" ELSE "gcd_return",
                 !["req"].found_empty = env.observe /\ channels_data_cache = <<>>,
                 !["req"].found_age = IF env.observe THEN channels_data_age ELSE 0,
                 !["req"].in_window = (hist.valid /\ hist.ret_age <= CACHE_TTL)]
    /\ hist' = Observed([hist EXCEPT !.inv_cur = FALSE])
    /\ UNCHANGED <<m3u8_file, persistVars, fetchVars, env, channels_file, chiave_exists,
                   vavoo_signature, vavoo_signature_age, channels_data_cache,
                   channels_data_age>>

\* line 361: `if not channels` after load_json_file
NeedsParse_Always(channels) == TRUE

NeedsParse(channels) == channels = <<>>

\* lines 357-364: the persisted data is loaded; if there is none the playlist
\* is analysed
GcdLoad ==
    /\ thr["req"].pc = "gcd_load"
    /\ LET channels == load_channels_file(channels_file)
       IN thr' = [thr EXCEPT
                    !["req"].channels = channels,
                    !["req"].found_no_data = env.observe /\ channels = <<>>,
                    !["req"].pc = IF NeedsParse(channels) THEN "p_open" ELSE "gcd_assign",
                    !["req"].k = "gcd_example"]
    /\ UNCHANGED <<m3u8_file, persistVars, fetchVars, env, channels_file, chiave_exists,
                   vavoo_signature, vavoo_signature_age, channels_data_cache,
                   channels_data_age, hist>>

\* lines 367-376: with still no channels, the example channels are used and saved
GcdExample ==
    /\ thr["req"].pc = "gcd_example"
    /\ IF thr["req"].channels = <<>>
       THEN /\ thr' = [thr EXCEPT !["req"].pc = "gcd_assign",
                                  !["req"].channels = EXAMPLE_CHANNELS]
            /\ channels_file' = DataOf(EXAMPLE_CHANNELS)
       ELSE /\ thr' = [thr EXCEPT !["req"].pc = "gcd_assign"]
            /\ UNCHANGED channels_file
    /\ UNCHANGED <<m3u8_file, persistVars, fetchVars, env, chiave_exists, vavoo_signature,
                   vavoo_signature_age, channels_data_cache, channels_data_age, hist>>

\* line 378: channels_data_cache = channels
GcdAssign ==
    /\ thr["req"].pc = "gcd_assign"
    /\ channels_data_cache' = thr["req"].channels
    /\ hist' = Observed([hist EXCEPT !.same = FALSE, !.obj_age = 0])
    /\ thr' = [thr EXCEPT !["req"].pc = "gcd_stamp"]
    /\ UNCHANGED <<m3u8_file, persistVars, fetchVars, env, channels_file, chiave_exists,
                   vavoo_signature, vavoo_signature_age, channels_data_age>>

\* line 379: channels_data_timestamp = current_time
GcdStamp ==
    /\ thr["req"].pc = "gcd_stamp"
    /\ channels_data_age' = 0
    /\ thr' = [thr EXCEPT !["req"].pc = "gcd_return"]
    /\ UNCHANGED <<m3u8_file, persistVars, fetchVars, env, channels_file, chiave_exists,
                   vavoo_signature, vavoo_signature_age, channels_data_cache, hist>>

\* line 384: return channels_data_cache.  The catalog and meta handlers answer
\* from the list; stream_with_params goes on to the lookup.
GcdReturn ==
    /\ thr["req"].pc = "gcd_return"
    /\ thr' = [thr EXCEPT
                 !["req"].pc = IF thr["req"].kind = "catalog" THEN "respond" ELSE "lookup",
                 !["req"].gcd = << [in_window |-> thr["req"].in_window,
                                    reloaded |-> thr["req"].channels # <<>>,
                                    same |-> hist.same,
                                    inv |-> hist.inv] >>]
    /\ hist' = Observed([valid |-> TRUE, ret_age |-> hist.obj_age, same |-> TRUE,
                         inv |-> hist.inv_cur, inv_cur |-> hist.inv_cur,
                         obj_age |-> hist.obj_age])
    /\ UNCHANGED <<m3u8_file, persistVars, fetchVars, env, channels_file, chiave_exists,
                   vavoo_signature, vavoo_signature_age, channels_data_cache,
                   channels_data_age>>

\* next((c for c in channels_data_cache if f"mediaflow-{c['id']}" == id), None)
FindChannel(cache, id) ==
    LET hits == {i \in 1..Len(cache) : cache[i].id = id}
    IN IF hits = {} THEN <<>>
       ELSE << cache[CHOOSE i \in hits : \A j \in hits : i <= j] >>

\* stream handlers: the channel is looked up; without a match the answer is
\* {"streams": []}.  resolve_stream_url lines 411-423: with the placeholder the
\* signature is asked for first.
Lookup ==
    /\ thr["req"].pc = "lookup"
    /\ LET found == FindChannel(channels_data_cache, thr["req"].id)
       IN thr' = [thr EXCEPT
                    !["req"].channel = found,
                    !["req"].k = "rs_resolve",
                    !["req"].pc = IF found = <<>> THEN "respond"
                                  ELSE IF found[1].signature_placeholder = KEY_PLACEHOLDER
                                       THEN "v_check" ELSE "rs_resolve"]
    /\ UNCHANGED <<m3u8_file, persistVars, fetchVars, env, channels_file, chiave_exists,
                   vavoo_signature, vavoo_signature_age, channels_data_cache,
                   channels_data_age, hist>>

\* resolve_stream_url lines 425-508: the resolve request, when one is made,
\* ends in one of RESOLVE_OUTCOMES; the descriptor is built.
Resolve ==
    /\ thr["req"].pc = "rs_resolve"
    /\ LET channel == thr["req"].channel[1]
           signature == thr["req"].signature
       IN \E outcome \in (IF CallsResolve(channel, signature)
                          THEN RESOLVE_OUTCOMES ELSE {"none"}) :
            thr' = [thr EXCEPT
                      !["req"].pc = "respond",
                      !["req"].outcome = outcome,
                      !["req"].result = << resolve_stream_url(channel, MEDIAFLOW_URL,
                                              MEDIAFLOW_PSW, signature, outcome) >>]
    /\ UNCHANGED <<m3u8_file, persistVars, fetchVars, env, channels_file, chiave_exists,
                   vavoo_signature, vavoo_signature_age, channels_data_cache,
                   channels_data_age, hist>>

\* the handler returns
Respond ==
    /\ thr["req"].pc = "respond"
    /\ thr' = [thr EXCEPT !["req"] = Thread("idle")]
    /\ UNCHANGED <<m3u8_file, persistVars, fetchVars, env, channels_file, chiave_exists,
                   vavoo_signature, vavoo_signature_age, channels_data_cache,
                   channels_data_age, hist>>

\* refresh_channels_periodically, lines 543-546: a new list is generated;
\* if generate_m3u8_list() is True it is analysed.
CycleGenerate ==
    /\ thr["ref"].pc = "c_gen"
    /\ \E run \in env.runs :
         LET g == generate_m3u8_list(run, m3u8_file)
         IN /\ m3u8_file' = g.file
            /\ thr' = [thr EXCEPT !["ref"].pc = IF g.ok THEN "p_open" ELSE "c_end",
                                  !["ref"].k = "c_inv1",
                                  !["ref"].failed = RunFailed(run)]
    /\ UNCHANGED <<persistVars, fetchVars, env, channels_file, chiave_exists, vavoo_signature,
                   vavoo_signature_age, channels_data_cache, channels_data_age, hist>>

\* line 550: channels_data_cache = []
CycleInvalidateCache ==
    /\ thr["ref"].pc = "c_inv1"
    /\ channels_data_cache' = <<>>
    /\ hist' = Observed([hist EXCEPT !.same = FALSE, !.obj_age = 0, !.inv = TRUE,
                                      !.inv_cur = TRUE])
    /\ thr' = [thr EXCEPT !["ref"].pc = "c_inv2"]
    /\ UNCHANGED <<m3u8_file, persistVars, fetchVars, env, channels_file, chiave_exists,
                   vavoo_signature, vavoo_signature_age, channels_data_age>>

\* lines 551-554: channels_data_timestamp = 0, then get_vavoo_signature()
CycleInvalidateStamp ==
    /\ thr["ref"].pc = "c_inv2"
    /\ channels_data_age' = CACHE_AGE_MAX
    /\ hist' = Observed([hist EXCEPT !.inv = TRUE, !.inv_cur = TRUE])
    /\ thr' = [thr EXCEPT !["ref"].pc = "v_check", !["ref"].k = "c_end"]
    /\ UNCHANGED <<m3u8_file, persistVars, fetchVars, env, channels_file, chiave_exists,
                   vavoo_signature, vavoo_signature_age, channels_data_cache>>

\* The loop as if it ran only while its cycles succeed.
LoopAgain_WhileCycleSucceeds(failed) == ~failed

\* line 540: while True
LoopAgain(failed) == TRUE

\* lines 555-559: the cycle is over, whatever happened in it; the thread sleeps
CycleEnd ==
    /\ thr["ref"].pc = "c_end"
    /\ thr' = [thr EXCEPT !["ref"] =
                  [Thread(IF LoopAgain(thr["ref"].failed) THEN "sleep" ELSE "dead")
                     EXCEPT !.kind = "cycle", !.prev_failed = thr["ref"].failed]]
    /\ UNCHANGED <<m3u8_file, persistVars, fetchVars, env, channels_file, chiave_exists,
                   vavoo_signature, vavoo_signature_age, channels_data_cache,
                   channels_data_age, hist>>

\* REFRESH_SLEEP seconds pass: no request is being served and the refresh
\* thread is in time.sleep, which now ends.
Tick ==
    /\ thr["req"].pc = "idle"
    /\ thr["ref"].pc = "sleep"
    /\ vavoo_signature_age' = Older(vavoo_signature_age, SIG_AGE_MAX)
    /\ channels_data_age' = Older(channels_data_age, CACHE_AGE_MAX)
    /\ hist' = Observed([hist EXCEPT !.ret_age = Older(hist.ret_age, CACHE_AGE_MAX),
                                      !.obj_age = Older(hist.obj_age, CACHE_AGE_MAX)])
    /\ thr' = [thr EXCEPT !["ref"].pc = "c_gen"]
    /\ UNCHANGED <<m3u8_file, persistVars, fetchVars, env, channels_file, chiave_exists,
                   vavoo_signature, channels_data_cache>>

BootNext == BootGenerate \/ BootDone
SharedNext == \E t \in THREADS :
                 \/ ParseOpen(t) \/ ParseRead(t) \/ ParseSave(t)
                 \/ SigCheck(t) \/ SigChiave(t) \/ SigGenerator(t) \/ SigReturn(t)
RequestNext ==
    \/ Request \/ GcdCheck \/ GcdLoad \/ GcdExample \/ GcdAssign \/ GcdStamp \/ GcdReturn
    \/ Lookup \/ Resolve \/ Respond
RefreshNext ==
    \/ CycleGenerate \/ CycleInvalidateCache \/ CycleInvalidateStamp \/ CycleEnd

Next == BootNext \/ SharedNext \/ RequestNext \/ RefreshNext \/ Tick

Spec == Init /\ [][Next]_vars

\* The system where the upstream either refuses authentication or serves the
\* whole catalog, and every request is a stream request for a listed channel.
SIG_ENV ==
    [runs |-> {r \in UPSTREAM_RUNS : r.auth = NONE \/ r.pages = FULL_PAGES},
     sig_runs |-> {r \in UPSTREAM_RUNS : r.auth = NONE \/ r.pages = FULL_PAGES},
     chiave_outcomes |-> CHIAVE_OUTCOMES,
     kinds |-> {"stream_with_params", "stream"}, ids |-> {Chars("rai-1")},
     observe |-> FALSE]

SigInit == SysInit(SIG_ENV)
SigSpec == SigInit /\ [][Next]_vars

\* The system where catalog pages can fail, and no signature is handed out to
\* the application.
CACHE_ENV ==
    [runs |-> UPSTREAM_RUNS,
     sig_runs |-> {r \in UPSTREAM_RUNS : r.auth = NONE},
     chiave_outcomes |-> {"empty", "fail"},
     kinds |-> REQUEST_KINDS, ids |-> {Chars("rai-1")}, observe |-> TRUE]

CacheInit == SysInit(CACHE_ENV)
CacheSpec == CacheInit /\ [][Next]_vars

\* The system where stream requests ask for a listed channel or for one of the
\* example channels (records without headers and without the placeholder).
PLAIN_ENV ==
    [runs |-> {r \in UPSTREAM_RUNS : r.auth = NONE \/ r.pages = FULL_PAGES},
     sig_runs |-> {r \in UPSTREAM_RUNS : r.auth = NONE \/ r.pages = FULL_PAGES},
     chiave_outcomes |-> {"token", "fail"},
     kinds |-> {"stream_with_params"}, ids |-> REQUEST_IDS,
     observe |-> FALSE]

PlainInit == SysInit(PLAIN_ENV)
PlainSpec == PlainInit /\ [][Next]_vars

\* The system where the catalog the upstream serves when the signature is
\* renewed is no longer the one it served when the list was generated.
CATALOG_ENV ==
    [runs |-> {r \in UPSTREAM_RUNS : r.auth = NONE \/ r.pages = FULL_PAGES},
     sig_runs |-> {r \in UPSTREAM_RUNS : r.auth = NONE \/ r.pages = PARTIAL_PAGES},
     chiave_outcomes |-> {"empty", "fail"},
     kinds |-> {"stream_with_params"}, ids |-> {Chars("rai-1")},
     observe |-> FALSE]

CatalogInit == SysInit(CATALOG_ENV)
CatalogSpec == CatalogInit /\ [][Next]_vars

\* The system where the upstream may leave an authentication request of the
\* signature scripts unanswered, and every request is a stream request.
TIMEOUT_ENV ==
    [runs |-> {r \in UPSTREAM_RUNS : r.auth = NONE \/ r.pages = FULL_PAGES},
     sig_runs |-> {SILENT_RUN} \cup {r \in UPSTREAM_RUNS : r.auth = NONE},
     chiave_outcomes |-> {"empty", "hang"},
     kinds |-> {"stream_with_params"}, ids |-> {Chars("rai-1")},
     observe |-> FALSE]

TimeoutInit == SysInit(TIMEOUT_ENV)
TimeoutSpec == TimeoutInit /\ [][Next]_vars

\* The start-up and the refresh thread alone (no request arrives).  The thread
\* is scheduled whenever it can run, and time passes.
REFRESH_ENV ==
    [runs |-> UPSTREAM_RUNS, sig_runs |-> UPSTREAM_RUNS, chiave_outcomes |-> CHIAVE_OUTCOMES,
     kinds |-> {}, ids |-> {}, observe |-> FALSE]

RefreshInit == SysInit(REFRESH_ENV)
RefreshLoopNext == BootNext \/ SharedNext \/ RefreshNext \/ Tick
RefreshSpec ==
    /\ RefreshInit
    /\ [][RefreshLoopNext]_vars
    /\ WF_vars(BootNext \/ SharedNext \/ RefreshNext)
    /\ WF_vars(Tick)

(***************************************************************************)
(* Write then parse: generate_m3u on a list of raw items, then             *)
(* parse_m3u8_to_channels on the file it wrote.                            *)
(***************************************************************************)
MaxItems == 2

\* the signatures the script may have obtained
SIGNATURES == {Chars("sigA"), Chars("sigB")}

NAMES ==
    { Chars("Rai 1 .c"), Chars("rai  1"), Chars("Sky Uno .c"), Chars("Sky, Tg .s"),
      Chars("Fox \"X\""), Chars("Telepace Rai"), Chars("Dmax") }

URLS == { Chars("https://up.example/rai1"), Chars("https://up.example/b "), <<>> }

RAW_ITEMS == [name : NAMES, url : URLS]

ItemLists == UNION {[1..n -> RAW_ITEMS] : n \in 0..MaxItems}

P_Entries == CompiledEntries(p_items, CHANNEL_FILTERS, CHANNEL_REMOVE,
                             CATEGORY_KEYWORDS, CHANNEL_LOGOS)

PersistInit ==
    /\ m3u8_file = NoFile
    /\ p_items \in ItemLists
    /\ p_parsed = <<>>
    /\ p_pc = "start"
    /\ FetchIdle
    /\ SysIdle

P_Generate ==
    /\ p_pc = "start"
    /\ \E signature \in SIGNATURES :
         m3u8_file' = generate_m3u(p_items, signature, CHANNEL_FILTERS, CHANNEL_REMOVE,
                                   CATEGORY_KEYWORDS, CHANNEL_LOGOS, m3u8_file)
    /\ p_pc' = "written"
    /\ UNCHANGED <<p_items, p_parsed, fetchVars, sysVars>>

P_Parse ==
    /\ p_pc = "written"
    /\ m3u8_file.exists
    /\ p_parsed' = ParseLines(m3u8_file.lines, CATEGORY_KEYWORDS)
    /\ p_pc' = "parsed"
    /\ UNCHANGED <<m3u8_file, p_items, fetchVars, sysVars>>

PersistNext == P_Generate \/ P_Parse

PersistSpec == PersistInit /\ [][PersistNext]_vars

(***************************************************************************)
(* C1                                                                      *)
(***************************************************************************)
HasChar(s, c) == \E i \in 1..Len(s) : s[i] = c

\* An entry the line format can carry: no comma or double quote in its name,
\* logo or category, a url with no surrounding whitespace and no leading '#'.
Carriable(e) ==
    /\ \A f \in {e.name, e.logo, e.genre} : ~HasChar(f, ",") /\ ~HasChar(f, "\"")
    /\ Strip(e.url) = e.url
    /\ ~StartsWith(e.url, <<"#">>)

SameButId(e, r) ==
    /\ r.name = e.name
    /\ r.genre = e.genre
    /\ r.logo = e.logo
    /\ r.headers = e.headers
    /\ r.signature_placeholder = e.signature_placeholder
    /\ r.url = e.url

\* C1 as stated: parsing what the writer wrote gives, entry by entry and in
\* order, a record with the id, name, category, logo, headers, signature
\* placeholder and url of the entry written.
C1_RoundTripIdentical ==
    p_pc = "parsed" =>
        /\ Len(p_parsed) = Len(P_Entries)
        /\ \A i \in 1..Len(P_Entries) :
               p_parsed[i].id = P_Entries[i].id /\ SameButId(P_Entries[i], p_parsed[i])

\* C1 amended: when every entry written is carriable by the line format,
\* parsing gives, entry by entry and in order, a record with the same name,
\* category, logo, headers, signature placeholder and url, and with the id
\* written lowercased with each space replaced by '-'.
C1_RoundTripUpToIdSlug ==
    (p_pc = "parsed" /\ \A i \in 1..Len(P_Entries) : Carriable(P_Entries[i])) =>
        /\ Len(p_parsed) = Len(P_Entries)
        /\ \A i \in 1..Len(P_Entries) :
               /\ p_parsed[i].id = Lower(ReplaceChar(P_Entries[i].id, " ", "-"))
               /\ SameButId(P_Entries[i], p_parsed[i])

C1_Witness ==
    /\ p_pc = "parsed"
    /\ Len(P_Entries) = 2
    /\ \A i \in 1..Len(P_Entries) : Carriable(P_Entries[i])
    /\ P_Entries[1].id = Chars("Rai 1")
    /\ p_parsed[1].id = Chars("rai-1")
    /\ p_parsed[2].logo = Chars("https://logos/sky-uno-it.png")

(***************************************************************************)
(* Pagination: get_channel_list against an upstream that answers each      *)
(* request with a failure or with a page of any of the sizes PAGE_SIZES.   *)
(***************************************************************************)
MaxPages == 4

PAGE_SIZES == {0, 1, 2, 100}

GROUPS == {Chars("Italy"), Chars("Germany")}

FetchInit ==
    /\ m3u8_file = NoFile
    /\ PersistIdle
    /\ SysIdle
    /\ f_pc = "loop"
    /\ f_signature \in SIGNATURES
    /\ f_group \in GROUPS
    /\ f_cursor = 0
    /\ f_all_items = <<>>
    /\ f_requests = <<>>
    /\ f_received = <<>>

F_Apply(resp) ==
    LET st == FetchStep([cursor |-> f_cursor, all_items |-> f_all_items,
                         requests |-> f_requests, received |-> f_received,
                         done |-> FALSE],
                        f_group, f_signature, resp)
    IN /\ f_cursor' = st.cursor
       /\ f_all_items' = st.all_items
       /\ f_requests' = st.requests
       /\ f_received' = st.received
       /\ f_pc' = IF st.done THEN "done" ELSE "loop"
       /\ UNCHANGED <<m3u8_file, persistVars, f_signature, f_group, sysVars>>

\* a request that is answered with a page
F_RequestPage ==
    /\ f_pc = "loop"
    /\ Len(f_requests) < MaxPages
    /\ \E n \in PAGE_SIZES : F_Apply(PageOf(f_cursor, n))

\* a request that fails
F_RequestFails ==
    /\ f_pc = "loop"
    /\ Len(f_requests) < MaxPages
    /\ F_Apply(PageFailure)

FetchNext == F_RequestPage \/ F_RequestFails

FetchSpec == FetchInit /\ [][FetchNext]_vars

(***************************************************************************)
(* C10                                                                     *)
(***************************************************************************)
RECURSIVE SumReceived(_, _)
SumReceived(received, n) ==
    IF n = 0 THEN 0
    ELSE (IF received[n] > 0 THEN received[n] ELSE 0) + SumReceived(received, n - 1)

\* C10: the cursor sent with the k-th catalog request is the number of items
\* received in requests 1..k-1, every request carries the same group filter,
\* and a first page of 100 items followed by an empty page makes exactly two
\* requests, the second with cursor 100.
C10_PaginationCursor ==
    /\ \A k \in 1..Len(f_requests) :
           /\ f_requests[k].cursor = SumReceived(f_received, k - 1)
           /\ f_requests[k].group = f_group
    /\ (Len(f_received) >= 2 /\ f_received[1] = 100 /\ f_received[2] = 0) =>
           /\ f_pc = "done"
           /\ Len(f_requests) = 2
           /\ f_requests[2].cursor = 100

C10_Witness ==
    /\ f_pc = "done"
    /\ f_received = <<100, 0>>
    /\ Len(f_requests) = 2
    /\ f_requests[2].cursor = 100
    /\ Len(f_all_items) = 100

(***************************************************************************)
(* The signature and the resolver (SigSpec)                                *)
(***************************************************************************)
\* C2: when the cached signature is absent or expired and several callers
\* invoke get_vavoo_signature, exactly one authentication attempt is started:
\* the request being served and the refresh thread are never both running an
\* authentication subprocess.
C2_SingleFlight ==
    ~(thr["req"].pc \in AUTH_PCS /\ thr["ref"].pc \in AUTH_PCS)

\* C3: a signature value returned by get_vavoo_signature is never past its
\* ttl: it was obtained at most SIG_TTL seconds before it is returned, also
\* when the authentication attempted at expiry fails.  (The claim asks for
\* "less than"; already the bound that allows the instant of expiry fails.)
C3_SignatureNeverUsedPastTtl ==
    \A t \in THREADS : Truthy(thr[t].signature) => thr[t].sig_age <= SIG_TTL

\* the "d" parameter of a proxy url, and whether it carries the signature
TargetOf(url) == DictGet(url.query, QuotePlus(Chars("d")), NONE)
HasSignatureParam(url) == DictHas(url.query, QuotePlus(Chars("h_mediahubmx-signature")))

\* a stream request has its descriptor, built for a record with the placeholder
Resolved == thr["req"].result # <<>>
            /\ thr["req"].channel[1].signature_placeholder = KEY_PLACEHOLDER

\* C8: for a record with the placeholder and a signature available, when the
\* resolve endpoint errors, times out, answers non-200 or returns no usable
\* url, resolve_stream_url raises nothing and the descriptor's url has the
\* original record url as its target.
C8_ResolverDegrades ==
    (Resolved /\ Truthy(thr["req"].signature) /\ thr["req"].outcome \in RESOLVE_FAILURES)
    => /\ ~thr["req"].result[1].raised
       /\ TargetOf(thr["req"].result[1].url) = QuotePlus(thr["req"].channel[1].url)

C8_Witness ==
    /\ Resolved /\ Truthy(thr["req"].signature)
    /\ thr["req"].outcome \in RESOLVE_RAISES
    /\ TargetOf(thr["req"].result[1].url) = QuotePlus(thr["req"].channel[1].url)

SecondCallInWindow == thr["req"].gcd # <<>> /\ thr["req"].gcd[1].in_window

\* C4 as stated: two get_channels_data calls made within the ttl window of the
\* held list return the same list object and the later one does not reload,
\* whatever ran between them.
C4_CacheCoherency ==
    SecondCallInWindow => thr["req"].gcd[1].same /\ ~thr["req"].gcd[1].reloaded

\* C4: two get_channels_data calls made within the ttl window of the list the
\* first one returned, with no invalidation by the refresh loop since the
\* first call began, return the same list object and the later one does not
\* reload.
C4_CacheCoherencyUnlessInvalidated ==
    (SecondCallInWindow /\ ~thr["req"].gcd[1].inv)
    => thr["req"].gcd[1].same /\ ~thr["req"].gcd[1].reloaded

C4_Witness ==
    /\ SecondCallInWindow /\ ~thr["req"].gcd[1].inv
    /\ thr["req"].gcd[1].same /\ ~thr["req"].gcd[1].reloaded
    /\ thr["req"].found_age = CACHE_TTL

\* C5: once channel data has been published, a step of a refresh cycle whose
\* generator run met a failure (authentication or a catalog page request)
\* leaves the persisted channel data as it was.
C5_FailedCycleKeepsSnapshot ==
    [][(channels_file.exists /\ thr["ref"].failed /\ thr'["ref"] # thr["ref"])
          => channels_file' = channels_file]_vars

\* a step of the request being served
RequestStep == thr'["req"] # thr["req"] /\ thr["req"].kind # "boot"

\* C7 as stated: no step of the request path assigns the cache, its timestamp
\* or the persisted channel data.
C7_RefreshLoopSoleWriter ==
    [][RequestStep => /\ channels_data_cache' = channels_data_cache
                      /\ channels_data_age' = channels_data_age
                      /\ channels_file' = channels_file]_vars

\* C7: on the request path the cache and its timestamp are assigned only by a
\* get_channels_data call that found the cache empty or older than CACHE_TTL,
\* and the persisted channel data is written only by such a call that found
\* no persisted channel data.
C7_RequestPathWritesOnlyOnReload ==
    [][RequestStep =>
         /\ (channels_data_cache' # channels_data_cache
               \/ channels_data_age' # channels_data_age)
            => /\ thr["req"].pc \in {"gcd_assign", "gcd_stamp"}
               /\ thr["req"].found_empty \/ thr["req"].found_age > CACHE_TTL
         /\ channels_file' # channels_file
            => /\ thr["req"].pc \in {"p_save", "gcd_example"}
               /\ thr["req"].found_empty \/ thr["req"].found_age > CACHE_TTL
               /\ thr["req"].found_no_data]_vars

C7_Witness ==
    /\ thr["req"].pc = "gcd_return" /\ thr["req"].kind = "catalog"
    /\ thr["req"].found_no_data
    /\ channels_data_cache = thr["req"].channels /\ channels_data_age = 0
    /\ channels_file = DataOf(thr["req"].channels)

(***************************************************************************)
(* The refresh loop (RefreshSpec)                                          *)
(***************************************************************************)
\* C6: the refresh loop never ends because of a failed cycle: a cycle that
\* has begun leads to the sleep, and the sleep leads to the next cycle.
C6_LoopNeverTerminates ==
    /\ (thr["ref"].pc = "c_gen") ~> (thr["ref"].pc = "sleep")
    /\ (thr["ref"].pc = "sleep") ~> (thr["ref"].pc = "c_gen")

C6_Witness == thr["ref"].pc = "c_gen" /\ thr["ref"].prev_failed

(***************************************************************************)
(* C11                                                                     *)
(***************************************************************************)
\* the k-th request of the loop failed
FailedAt(k) == Len(f_received) = k /\ f_received[k] = -1

\* C11: when the k-th catalog request fails, get_channel_list returns (the
\* loop is left, nothing is raised) exactly the items of pages 1..k-1, in the
\* order received: the upstream items 1..n, n being the number received.
C11_PartialResultsOnFetchError ==
    \A k \in 1..MaxPages :
       FailedAt(k) =>
          /\ f_pc = "done"
          /\ f_all_items = [i \in 1..SumReceived(f_received, k - 1) |-> UpstreamItem(i)]

C11_Witness ==
    /\ FailedAt(3)
    /\ f_pc = "done"
    /\ f_received[1] = 2 /\ f_received[2] = 1
    /\ f_all_items = <<UpstreamItem(1), UpstreamItem(2), UpstreamItem(3)>>

(***************************************************************************)
(* The functions of a channel name, each applied to names (and maps) drawn *)
(* from small sets.  p_parsed holds the calls made: the function, its      *)
(* argument(s) and what it returned.                                       *)
(***************************************************************************)
FN_NAMES ==
    { Chars("Rai 1 .c"), Chars("rai  1"), Chars("Rai 1 .c "), Chars("RAI NEWS 24"),
      Chars("Sky Uno .c"), Chars("Sky  Uno .c"), Chars("Sky Tg .c .s"), Chars("Rai Fox .s"),
      Chars("Tv8.s"), Chars("Dmax"), Chars(" .c"), <<>> }

SANITIZERS == {"sanitize_tvg_id", "clean_channel_name", "sanitize_channel_name"}

Sanitize(fn, x) ==
    IF fn = "sanitize_tvg_id" THEN sanitize_tvg_id(x)
    ELSE IF fn = "clean_channel_name" THEN clean_channel_name(x)
    ELSE sanitize_channel_name(x)

\* category maps, in iteration order
CATEGORY_MAPS ==
    { CATEGORY_KEYWORDS,
      << <<Chars("RAI"), <<Chars("rai")>> >> >>,
      << <<Chars("RAI"), <<Chars("RAI")>> >>,
         <<Chars("SKY"), <<Chars("Fox"), Chars("sky uno")>> >> >>,
      <<>> }

LOGO_MAPS ==
    { CHANNEL_LOGOS,
      << <<Chars("rai 1"), Chars("https://logos/rai-1-it.png")>> >>,
      <<>> }

FnInit ==
    /\ m3u8_file = NoFile
    /\ p_items = <<>>
    /\ p_parsed = <<>>
    /\ p_pc = "fn"
    /\ FetchIdle
    /\ SysIdle

Fn_Sanitize ==
    /\ p_pc = "fn"
    /\ \E fn \in SANITIZERS, x \in FN_NAMES :
         p_parsed' = << [fn |-> fn, arg |-> x, out |-> Sanitize(fn, x)] >>
    /\ p_pc' = "once"
    /\ UNCHANGED <<m3u8_file, p_items, fetchVars, sysVars>>

\* the same sanitizer applied to what it returned
Fn_SanitizeAgain ==
    /\ p_pc = "once"
    /\ p_parsed' = Append(p_parsed, [fn |-> p_parsed[1].fn, arg |-> p_parsed[1].out,
                                     out |-> Sanitize(p_parsed[1].fn, p_parsed[1].out)])
    /\ p_pc' = "twice"
    /\ UNCHANGED <<m3u8_file, p_items, fetchVars, sysVars>>

Fn_Category ==
    /\ p_pc = "fn"
    /\ \E x \in FN_NAMES, m \in CATEGORY_MAPS :
         \/ p_parsed' = << [fn |-> "get_category", arg |-> x, map |-> m,
                            out |-> get_category(x, m)] >>
         \/ p_parsed' = << [fn |-> "lista_get_category", arg |-> x, map |-> m,
                            out |-> lista_get_category(x, m)] >>
         \/ p_parsed' = << [fn |-> "get_channel_category", arg |-> x, map |-> m,
                            out |-> get_channel_category(x, m)] >>
    /\ p_pc' = "called"
    /\ UNCHANGED <<m3u8_file, p_items, fetchVars, sysVars>>

Fn_Logo ==
    /\ p_pc = "fn"
    /\ \E x \in FN_NAMES, m \in LOGO_MAPS :
         p_parsed' = << [fn |-> "get_logo_url", arg |-> x, map |-> m,
                         out |-> get_logo_url(x, m)] >>
    /\ p_pc' = "called"
    /\ UNCHANGED <<m3u8_file, p_items, fetchVars, sysVars>>

FnNext == Fn_Sanitize \/ Fn_SanitizeAgain \/ Fn_Category \/ Fn_Logo

FnSpec == FnInit /\ [][FnNext]_vars

(***************************************************************************)
(* C12                                                                     *)
(***************************************************************************)
\* C12: applying a name sanitizer to its own result gives that result again.
C12_SanitizationIdempotent ==
    p_pc = "twice" => p_parsed[2].out = p_parsed[1].out

(***************************************************************************)
(* C13                                                                     *)
(***************************************************************************)
\* the first category of the map, in its order, one of whose keywords occurs in
\* the text; keywords are lower-cased first when fold is TRUE
RECURSIVE FirstCategory(_, _, _)
FirstCategory(map, text, fold) ==
    IF map = <<>> THEN Chars("ALTRI")
    ELSE IF \E k \in 1..Len(map[1][2]) :
               Contains(IF fold THEN Lower(map[1][2][k]) ELSE map[1][2][k], text)
         THEN map[1][1]
         ELSE FirstCategory(Tail(map), text, fold)

CategoryCalls == {"get_category", "lista_get_category"}

\* C13: the category is the first one, in map order, with a keyword that is a
\* substring of the lower-cased name AS RECEIVED (the raw upstream name, suffix
\* and spacing included), and ALTRI when there is none; the compiler lower-cases
\* the keyword, the list variant compares it as configured.
C13_CategoryFirstMatchOnRawName ==
    (p_pc = "called" /\ p_parsed[1].fn \in CategoryCalls) =>
        p_parsed[1].out = FirstCategory(p_parsed[1].map, Lower(p_parsed[1].arg),
                                        p_parsed[1].fn = "get_category")

\* C13 as stated: the keywords are tested, case-insensitively, against the
\* sanitized name.
C13_CategoryFirstMatchOnSanitizedName ==
    (p_pc = "called" /\ p_parsed[1].fn \in CategoryCalls) =>
        p_parsed[1].out =
            FirstCategory(p_parsed[1].map,
                          Lower(IF p_parsed[1].fn = "get_category"
                                THEN sanitize_tvg_id(p_parsed[1].arg)
                                ELSE sanitize_channel_name(p_parsed[1].arg)),
                          TRUE)

\* a name matching two categories gets the first; the example of the claim
C13_Witness ==
    /\ p_pc = "called"
    /\ p_parsed[1].fn = "get_category"
    /\ \/ /\ p_parsed[1].arg = Chars("Rai Fox .s")
          /\ p_parsed[1].map = CATEGORY_KEYWORDS
          /\ p_parsed[1].out = Chars("SKY")
       \/ /\ p_parsed[1].arg = Chars("Rai 1 .c")
          /\ p_parsed[1].map = << <<Chars("RAI"), <<Chars("rai")>> >> >>
          /\ p_parsed[1].out = Chars("RAI")

(***************************************************************************)
(* C14                                                                     *)
(***************************************************************************)
\* C14: no two channel records of a parsed snapshot have the same id, here
\* for a catalog whose upstream names are pairwise distinct.
C14_UniqueIds ==
    (/\ p_pc = "parsed"
     /\ \A i, j \in 1..Len(p_items) : i # j => p_items[i].name # p_items[j].name) =>
        \A i, j \in 1..Len(p_parsed) : i # j => p_parsed[i].id # p_parsed[j].id

(***************************************************************************)
(* C15                                                                     *)
(***************************************************************************)
\* a get_channels_data call about to return that found no persisted channel
\* data, with no playlist on disk (none was ever generated: every generation
\* attempted so far, the call's own included, failed)
NothingProduced ==
    /\ thr["req"].pc = "gcd_return"
    /\ thr["req"].found_no_data
    /\ ~m3u8_file.exists

C15_ExampleIds ==
    << Chars("rai1-example"), Chars("canale5-example"),
       Chars("skysport-example"), Chars("discovery-example") >>

\* C15 as stated: with nothing ever produced the call returns an empty list.
C15_ReturnsEmptySnapshot == NothingProduced => channels_data_cache = <<>>

\* C15: with nothing ever produced the call returns the four built-in example
\* channels, which it has also saved as the persisted channel data.
C15_ReturnsExampleChannels ==
    NothingProduced =>
        /\ Len(channels_data_cache) = Len(C15_ExampleIds)
        /\ \A i \in 1..Len(C15_ExampleIds) :
              /\ channels_data_cache[i].id = C15_ExampleIds[i]
              /\ StartsWith(channels_data_cache[i].url, Chars("https://example.com/"))
        /\ channels_file.exists
        /\ channels_file.data = channels_data_cache

C15_Witness ==
    /\ NothingProduced
    /\ thr["req"].kind = "catalog"
    /\ Len(channels_data_cache) = Len(C15_ExampleIds)
    /\ channels_data_cache[1].name = Chars("Rai 1")

(***************************************************************************)
(* C16                                                                     *)
(***************************************************************************)
\* the step of a get_channels_data call that is inside parse_m3u8_to_channels,
\* at the test for the playlist file
ReadOpensPlaylist ==
    /\ thr["req"].pc = "p_open" /\ thr["req"].k = "gcd_example"
    /\ thr'["req"] # thr["req"]

\* C16: a get_channels_data call completes without starting the playlist
\* generator: when it comes to open the playlist, the playlist is there (with
\* no playlist, parse_m3u8_to_channels runs generate_m3u8_list and waits for it).
C16_ReadsNeverStartGeneration ==
    [][ReadOpensPlaylist => m3u8_file.exists]_vars

(***************************************************************************)
(* C17                                                                     *)
(***************************************************************************)
\* some keyword of the list occurs in the name, letter case ignored
HasKeyword(name, words) ==
    \E w \in {words[k] : k \in 1..Len(words)} : Contains(Lower(w), Lower(name))

NameAdmitted(item) ==
    ~HasKeyword(item.name, CHANNEL_REMOVE) /\ HasKeyword(item.name, CHANNEL_FILTERS)

\* the entries of the playlist written: the groups of six lines after the header
WrittenEntries ==
    [k \in 1..((Len(m3u8_file.lines) - 1) \div 6) |->
        SubSeq(m3u8_file.lines, 6 * k - 4, 6 * k + 1)]

EntryLinesOf(item) == WriteEntry(CompileEntry(item, CATEGORY_KEYWORDS, CHANNEL_LOGOS))

\* the playlist holds, in order and once each, the entries of the items kept
WritesExactly(kept) ==
    /\ m3u8_file.exists
    /\ Len(m3u8_file.lines) = 1 + 6 * Len(kept)
    /\ \A k \in 1..Len(kept) : WrittenEntries[k] = EntryLinesOf(kept[k])

\* C17 as stated: the entries written are, in input order, exactly the items
\* whose name has no exclusion keyword and has an inclusion keyword.
C17_WritesItemsAdmittedByName ==
    (p_pc = "written" /\ p_items # <<>>) =>
        WritesExactly(SelectSeq(p_items, NameAdmitted))

C17_Kept(item) == NameAdmitted(item) /\ item.url # <<>>

\* C17: the entries written are, in input order, exactly the items whose name
\* has no exclusion keyword and has an inclusion keyword AND that carry a
\* non-empty url.
C17_WritesItemsAdmittedWithUrl ==
    (p_pc = "written" /\ p_items # <<>>) =>
        WritesExactly(SelectSeq(p_items, C17_Kept))

\* an item matching both lists is left out, the item after it is written
C17_Witness ==
    /\ p_pc = "written"
    /\ Len(p_items) = 2
    /\ p_items[1].name = Chars("Telepace Rai") /\ p_items[1].url # <<>>
    /\ p_items[2].name = Chars("Rai 1 .c") /\ p_items[2].url # <<>>
    /\ Len(WrittenEntries) = 1
    /\ WrittenEntries[1][6] = p_items[2].url

(***************************************************************************)
(* C18                                                                     *)
(***************************************************************************)
\* the logo map has an entry whose key is the text, letter case ignored
LogoEntryFor(map, text) == \E i \in 1..Len(map) : Lower(map[i][1]) = Lower(text)

\* C18: when the logo map has no entry for the name (neither as received nor
\* sanitized), the logo is the placeholder url followed by the whole sanitized
\* name with each space written as '+'.
C18_PlaceholderEmbedsSanitizedName ==
    (/\ p_pc = "called" /\ p_parsed[1].fn = "get_logo_url"
     /\ ~LogoEntryFor(p_parsed[1].map, p_parsed[1].arg)
     /\ ~LogoEntryFor(p_parsed[1].map, sanitize_tvg_id(p_parsed[1].arg))) =>
        p_parsed[1].out =
            PLACEHOLDER_PREFIX \o ReplaceChar(sanitize_tvg_id(p_parsed[1].arg), " ", "+")

(***************************************************************************)
(* C19                                                                     *)
(***************************************************************************)
HeaderKeys(h) == {h[i][1] : i \in 1..Len(h)}

\* C19: every entry written carries the three fixed header directives and the
\* signature directive with the literal [$KEY$]; no line of the playlist holds
\* a signature the writer was given; every record parsed from the playlist has
\* signature_placeholder [$KEY$] and exactly the header keys user-agent, origin
\* and referer.
C19_FixedHeadersAndSentinel ==
    /\ (p_pc \in {"written", "parsed"} /\ m3u8_file.exists) =>
          /\ \A k \in 1..Len(WrittenEntries) :
                /\ WrittenEntries[k][2] = Chars("#EXTVLCOPT:http-user-agent=okhttp/4.11.0")
                /\ WrittenEntries[k][3] = Chars("#EXTVLCOPT:http-origin=https://vavoo.to/")
                /\ WrittenEntries[k][4] = Chars("#EXTVLCOPT:http-referrer=https://vavoo.to/")
                /\ WrittenEntries[k][5] = Chars("#EXTVLCOPT:mediahubmx-signature=[$KEY$]")
          /\ \A n \in 1..Len(m3u8_file.lines) :
                \A sig \in SIGNATURES : ~Contains(sig, m3u8_file.lines[n])
    /\ p_pc = "parsed" =>
          \A i \in 1..Len(p_parsed) :
             /\ p_parsed[i].signature_placeholder = Chars("[$KEY$]")
             /\ Len(p_parsed[i].headers) = 3
             /\ HeaderKeys(p_parsed[i].headers)
                   = {Chars("user-agent"), Chars("origin"), Chars("referer")}

C19_Witness ==
    /\ p_pc = "parsed"
    /\ Len(WrittenEntries) = 2
    /\ Len(p_parsed) = 2
    /\ p_parsed[2].headers[3] = <<Chars("referer"), Chars("https://vavoo.to/")>>
    /\ p_parsed[2].signature_placeholder = Chars("[$KEY$]")

(***************************************************************************)
(* C20                                                                     *)
(***************************************************************************)
\* C20: a stream request is never left waiting without bound on an outbound
\* operation: the request thread is never stuck in a signature acquisition
\* whose upstream does not answer.
C20_RequestNeverWaitsForever ==
    ~(thr["req"].kind = "stream_with_params" /\ thr["req"].pc = "v_hung")

(***************************************************************************)
(* C21                                                                     *)
(***************************************************************************)
\* a stream handler is about to answer {"streams": result}
StreamAnswer == thr["req"].pc = "respond" /\ thr["req"].kind \in {"stream", "stream_with_params"}

\* the keys of a descriptor (`raised` is the model's note of an exception)
DescriptorKeys(d) == DOMAIN d \ {"raised"}

\* C21 as stated: the descriptor of the primary proxy carries a url, a title
\* and a name tag identifying the proxy.
C21_DescriptorsCarryNameTag ==
    (StreamAnswer /\ thr["req"].channel # <<>>) =>
        /\ Len(thr["req"].result) >= 1
        /\ {"url", "title", "name"} \subseteq DescriptorKeys(thr["req"].result[1])

\* C21: the answer of a stream handler is a list with exactly one descriptor
\* when the channel is found (none otherwise); the descriptor has the two keys
\* url and title, the url being the manifest endpoint of the one proxy of the
\* request and the title the name of the record.
C21_SingleDescriptorUrlAndTitle ==
    StreamAnswer =>
        IF thr["req"].channel = <<>> THEN thr["req"].result = <<>>
        ELSE /\ Len(thr["req"].result) = 1
             /\ DescriptorKeys(thr["req"].result[1]) = {"url", "title"}
             /\ thr["req"].result[1].url.host = MEDIAFLOW_URL
             /\ thr["req"].result[1].url.path = Chars("/proxy/hls/manifest.m3u8")
             /\ thr["req"].result[1].title = Chars("Rai 1")

C21_Witness ==
    /\ StreamAnswer /\ thr["req"].kind = "stream"
    /\ Len(thr["req"].result) = 1
    /\ thr["req"].result[1].title = Chars("Rai 1")
    /\ thr["req"].outcome = "ok"

(***************************************************************************)
(* C22                                                                     *)
(***************************************************************************)
\* the value of a query parameter of the descriptor's url
ParamOf(url, key) == DictGet(url.query, QuotePlus(Chars(key)), NONE)

\* C22: the url of the descriptor has the parameter api_password with the
\* password of the request, the parameter d with the target url (the resolved
\* url after a successful resolve, the record's url otherwise), one parameter
\* h_<name> for each header of the record, the parameter h_mediahubmx-signature
\* exactly when get_vavoo_signature returned a signature, and nothing else.
C22_PrimaryDescriptorContent ==
    (thr["req"].result # <<>>) =>
        LET url == thr["req"].result[1].url
            channel == thr["req"].channel[1]
            signed == Truthy(thr["req"].signature)
        IN /\ ParamOf(url, "api_password") = QuotePlus(MEDIAFLOW_PSW)
           /\ ParamOf(url, "d") = QuotePlus(IF thr["req"].outcome = "ok"
                                            THEN RESOLVED_URL ELSE channel.url)
           /\ \A i \in 1..Len(channel.headers) :
                 DictGet(url.query, QuotePlus(Chars("h_") \o channel.headers[i][1]), NONE)
                    = QuotePlus(channel.headers[i][2])
           /\ HasSignatureParam(url) <=> signed
           /\ signed => ParamOf(url, "h_mediahubmx-signature") = QuotePlus(thr["req"].signature)
           /\ Len(url.query) = 2 + Len(channel.headers) + (IF signed THEN 1 ELSE 0)

C22_Witness ==
    /\ thr["req"].result # <<>>
    /\ Truthy(thr["req"].signature)
    /\ Len(thr["req"].channel[1].headers) = 3
    /\ Len(thr["req"].result[1].url.query) = 6
    /\ thr["req"].outcome = "non200"

(***************************************************************************)
(* C23                                                                     *)
(***************************************************************************)
\* the request is serving a record whose signature placeholder is unset
PlainRecord ==
    /\ thr["req"].channel # <<>>
    /\ thr["req"].channel[1].signature_placeholder # KEY_PLACEHOLDER

\* C23: for a record whose signature placeholder is unset the request never
\* enters get_vavoo_signature, no resolve request is made, the descriptor's
\* target is the record's url unchanged (and the url has no signature
\* parameter), and no step of the request changes the cached signature or its
\* timestamp.
C23_PlainRecordLeftAlone ==
    /\ [](PlainRecord =>
            /\ thr["req"].pc \notin {"v_check", "v_chiave", "v_gen", "v_return", "v_hung"}
            /\ thr["req"].result # <<>> =>
                  /\ thr["req"].outcome = "none"
                  /\ TargetOf(thr["req"].result[1].url) = QuotePlus(thr["req"].channel[1].url)
                  /\ ~HasSignatureParam(thr["req"].result[1].url))
    /\ [][(PlainRecord /\ RequestStep) =>
            /\ vavoo_signature' = vavoo_signature
            /\ vavoo_signature_age' = vavoo_signature_age]_vars

C23_Witness ==
    /\ PlainRecord
    /\ thr["req"].result # <<>>
    /\ thr["req"].channel[1].id = Chars("rai1-example")
    /\ TargetOf(thr["req"].result[1].url) = QuotePlus(Chars("https://example.com/rai1.m3u8"))

(***************************************************************************)
(* C24                                                                     *)
(***************************************************************************)
\* a get_vavoo_signature call of thread t is about to return having found the
\* cached signature absent or expired
RenewalReturns(t) == thr[t].pc = "v_return" /\ thr[t].attempts # <<>>

\* C24 as stated: a call that found the signature absent or expired has run
\* exactly one script.
C24_ExactlyOneAttempt ==
    \A t \in THREADS : RenewalReturns(t) => Len(thr[t].attempts) = 1

\* C24: such a call has run one script, or two when chiave.py exists and
\* printed nothing: chiave.py first, then the generator script; the generator
\* script alone only when chiave.py does not exist.
C24_OneAttemptOrChiaveThenGenerator ==
    \A t \in THREADS :
        RenewalReturns(t) =>
            \/ thr[t].attempts = << <<"m3u8_vavoo.py">> >> /\ ~chiave_exists
            \/ thr[t].attempts \in {<< <<"chiave.py", "token">> >>, << <<"chiave.py", "fail">> >>}
                  /\ chiave_exists
            \/ thr[t].attempts = << <<"chiave.py", "empty">>, <<"m3u8_vavoo.py">> >>
                  /\ chiave_exists

C24_Witness ==
    /\ RenewalReturns("req")
    /\ thr["req"].kind = "stream_with_params"
    /\ thr["req"].attempts = << <<"chiave.py", "empty">>, <<"m3u8_vavoo.py">> >>

(***************************************************************************)
(* C25                                                                     *)
(***************************************************************************)
\* the k-th request was answered with an empty page or failed
EndsLoop(k) == f_received[k] = 0 \/ f_received[k] = -1

\* C25: an empty page or a failed request is the last request made: the loop
\* is over as soon as one is received, it is over for no other reason, and
\* once it is over no request is made.
C25_StopsAtFirstEmptyOrError ==
    /\ [](/\ \A k \in 1..Len(f_received) :
               EndsLoop(k) => /\ k = Len(f_received)
                              /\ Len(f_requests) = k
                              /\ f_pc = "done"
          /\ f_pc = "done" => (f_received # <<>> /\ EndsLoop(Len(f_received))))
    /\ [][f_pc = "loop" /\ Len(f_requests') = Len(f_requests) + 1]_vars

C25_Witness ==
    /\ f_pc = "done"
    /\ f_received = <<1, 2, 0>>
    /\ Len(f_requests) = 3

(***************************************************************************)
(* C26                                                                     *)
(***************************************************************************)
\* C26: for a record with the placeholder and a signature available, when the
\* resolve endpoint answers 200 with a list whose first element has a url, the
\* d parameter of the descriptor is that url and not the record's url.
C26_SuccessfulResolutionReplacesTarget ==
    (Resolved /\ Truthy(thr["req"].signature) /\ thr["req"].outcome = "ok") =>
        /\ ParamOf(thr["req"].result[1].url, "d") = QuotePlus(RESOLVED_URL)
        /\ ParamOf(thr["req"].result[1].url, "d") # QuotePlus(thr["req"].channel[1].url)

C26_Witness ==
    /\ Resolved /\ Truthy(thr["req"].signature) /\ thr["req"].outcome = "ok"
    /\ thr["req"].kind = "stream_with_params"
    /\ thr["req"].channel[1].url = Chars("https://up.example/1")
    /\ ParamOf(thr["req"].result[1].url, "d") = QuotePlus(Chars("https://cdn.example/live.m3u8"))

(***************************************************************************)
(* parse_m3u8_to_channels and get_channels_data on a playlist found on     *)
(* disk: any sequence of up to MaxBlocks blocks of lines, each a whole     *)
(* entry (with or without the tvg-id and group-title attributes) or a      *)
(* malformed one.  p_items holds the blocks the playlist was made of.      *)
(***************************************************************************)
MaxBlocks == 3

\* kind "entry":     metadata line, directives, url line
\* kind "no_url":    metadata line and directives, never followed by a url line
\* kind "no_extinf": directives and url line with no metadata line before them
\* kind "bare_url":  a url line alone
Block(kind, tvg_id, group, name, agent, url) ==
    [kind |-> kind, tvg_id |-> tvg_id, group |-> Chars(group), name |-> Chars(name),
     agent |-> Chars(agent), url |-> Chars(url)]

BLOCKS ==
    { Block("entry", TRUE, "RAI", "Rai 1", "ua1", "https://up.example/1"),
      Block("entry", FALSE, "", "Sky Uno", "ua1", "https://up.example/2"),
      Block("entry", TRUE, "NEWS", "Tg 24", "ua1", "https://up.example/3"),
      Block("no_url", TRUE, "RAI", "Rai 2", "ua1", ""),
      Block("no_extinf", FALSE, "", "", "ua2", "https://up.example/4"),
      Block("bare_url", FALSE, "", "", "", "https://up.example/5") }

ExtinfLine(b) ==
    Chars("#EXTINF:-1")
       \o (IF b.tvg_id THEN Chars(" tvg-id=") \o Q \o b.name \o Q ELSE <<>>)
       \o Chars(" tvg-name=") \o Q \o b.name \o Q
       \o (IF b.group # <<>> THEN Chars(" group-title=") \o Q \o b.group \o Q ELSE <<>>)
       \o <<",">> \o b.name

DirectiveLines(b) ==
    << Chars("#EXTVLCOPT:http-user-agent=") \o b.agent,
       Chars("#EXTVLCOPT:mediahubmx-signature=[$KEY$]") >>

BlockLines(b) ==
    IF b.kind = "entry" THEN <<ExtinfLine(b)>> \o DirectiveLines(b) \o <<b.url>>
    ELSE IF b.kind = "no_url" THEN <<ExtinfLine(b)>> \o DirectiveLines(b)
    ELSE IF b.kind = "no_extinf" THEN DirectiveLines(b) \o <<b.url>>
    ELSE <<b.url>>

RECURSIVE PlaylistLines(_)
PlaylistLines(blocks) ==
    IF blocks = <<>> THEN <<>>
    ELSE BlockLines(Head(blocks)) \o PlaylistLines(Tail(blocks))

PlaylistOf(blocks) == FileOf(<<M3U_HEADER>> \o PlaylistLines(blocks))

PlaylistInit ==
    /\ p_items \in UNION {[1..n -> BLOCKS] : n \in 0..MaxBlocks}
    /\ m3u8_file = PlaylistOf(p_items)
    /\ p_parsed = <<>>
    /\ p_pc = "written"
    /\ FetchIdle
    /\ SysIdle

\* parse_m3u8_to_channels: the playlist is analysed and a non-empty result is
\* saved as the persisted channel data
PL_Parse ==
    /\ p_pc = "written"
    /\ LET channels == ParseLines(m3u8_file.lines, CATEGORY_KEYWORDS)
       IN /\ p_parsed' = channels
          /\ channels_file' = IF channels # <<>> THEN DataOf(channels) ELSE channels_file
    /\ p_pc' = "parsed"
    /\ UNCHANGED <<m3u8_file, p_items, fetchVars, chiave_exists, vavoo_signature,
                   vavoo_signature_age, channels_data_cache, channels_data_age, thr, hist, env>>

\* get_channels_data, lines 366-379: the channels analysed, or the example
\* channels when there are none, become the cache
PL_Cache ==
    /\ p_pc = "parsed"
    /\ LET channels == IF p_parsed # <<>> THEN p_parsed ELSE EXAMPLE_CHANNELS
       IN /\ channels_data_cache' = channels
          /\ channels_file' = IF p_parsed # <<>> THEN channels_file ELSE DataOf(channels)
    /\ channels_data_age' = 0
    /\ p_pc' = "cached"
    /\ UNCHANGED <<m3u8_file, p_items, p_parsed, fetchVars>>
    /\ UNCHANGED <<chiave_exists, vavoo_signature, vavoo_signature_age, thr, hist, env>>

PlaylistNext == PL_Parse \/ PL_Cache

PlaylistSpec == PlaylistInit /\ [][PlaylistNext]_vars

(***************************************************************************)
(* C27                                                                     *)
(***************************************************************************)
WellFormedPlaylist == \A i \in 1..Len(p_items) : p_items[i].kind = "entry"

Orders(n) == {f \in [1..n -> 1..n] : \A i, j \in 1..n : f[i] = f[j] => i = j}

Reordered(f) == [i \in 1..Len(p_items) |-> p_items[f[i]]]

ParseOf(blocks) == ParseLines(PlaylistOf(blocks).lines, CATEGORY_KEYWORDS)

FieldsButId(c) == [k \in DOMAIN c \ {"id"} |-> c[k]]

FallbackIds ==
    \A i \in 1..Len(p_items) :
        ~p_items[i].tvg_id => p_parsed[i].id = Chars("channel-") \o IntToChars(i - 1)

C28_ParserCategoryEqualsCompilerCategory ==
    (p_pc = "called" /\ p_parsed[1].fn = "get_channel_category") =>
        p_parsed[1].out = get_category(p_parsed[1].arg, p_parsed[1].map)

\* the parser's fallback called on a mixed-case name that two categories match,
\* one of them through an upper-case keyword
C28_Witness ==
    /\ p_pc = "called"
    /\ p_parsed[1].fn = "get_channel_category"
    /\ p_parsed[1].arg = Chars("Rai Fox .s")
    /\ Len(p_parsed[1].map) = 2
    /\ p_parsed[1].map[1][2] = <<Chars("RAI")>>
    /\ p_parsed[1].out = Chars("RAI")

(***************************************************************************)
(* C29                                                                     *)
(***************************************************************************)
Malformed == {i \in 1..Len(p_items) : p_items[i].kind # "entry"}

Without(blocks, m) == SubSeq(blocks, 1, m - 1) \o SubSeq(blocks, m + 1, Len(blocks))

\* C29: when exactly one entry of the playlist is malformed, the parser returns
\* the well-formed entries, those before and those after it, with the fields
\* the playlist without the malformed entry gives them, and nothing else.
C29_MalformedEntrySkipped ==
    (p_pc = "parsed" /\ Cardinality(Malformed) = 1) =>
        p_parsed = ParseOf(Without(p_items, CHOOSE m \in Malformed : TRUE))

\* the same, for a malformed entry that does not bring directive lines of its
\* own right behind the URL line of another entry
C29_SkippedUnlessDirectivesFollowUrl ==
    (/\ p_pc = "parsed"
     /\ Cardinality(Malformed) = 1
     /\ LET m == CHOOSE m \in Malformed : TRUE
        IN p_items[m].kind = "no_extinf" => m = 1) =>
        p_parsed = ParseOf(Without(p_items, CHOOSE m \in Malformed : TRUE))

(***************************************************************************)
(* C30                                                                     *)
(***************************************************************************)
\* the keys of the configured category keyword map (what get_category_keywords
\* returns) and the default category
ConfiguredCategories == {CATEGORY_KEYWORDS[i][1] : i \in 1..Len(CATEGORY_KEYWORDS)} \cup {ALTRI}

HeaderKeysLowercase(c) ==
    "headers" \in DOMAIN c => \A k \in HeaderKeys(c.headers) : Lower(k) = k

\* C30: in every snapshot held by the cache, each record's category is a key
\* of the configured category keyword map or ALTRI, and each record's header
\* keys are lowercase.
C30_CategoriesConfiguredAndHeaderKeysLowercase ==
    \A i \in 1..Len(channels_data_cache) :
        /\ channels_data_cache[i].genre \in ConfiguredCategories
        /\ HeaderKeysLowercase(channels_data_cache[i])

\* the header half of C30 alone
C30_HeaderKeysLowercase ==
    \A i \in 1..Len(channels_data_cache) : HeaderKeysLowercase(channels_data_cache[i])

(***************************************************************************)
(* C35                                                                     *)
(***************************************************************************)
\* the playlist is made of whole entries and of directive lines (with a url
\* line) that follow the url line of an entry without a metadata line of
\* their own
EntriesAndStrayDirectives ==
    \A i \in 1..Len(p_items) : p_items[i].kind \in {"entry", "no_extinf"}

RECURSIVE EntriesOf(_)
EntriesOf(blocks) ==
    IF blocks = <<>> THEN <<>>
    ELSE (IF Head(blocks).kind = "entry" THEN <<Head(blocks)>> ELSE <<>>)
            \o EntriesOf(Tail(blocks))

\* the header directives between the metadata line and the url line of an entry
OwnHeaders(b) == << <<Chars("user-agent"), b.agent>> >>

\* C35: the headers of each parsed record are exactly the header directives
\* found between that entry's metadata line and its url line; directive lines
\* after an entry's url line and before the next metadata line change neither
\* the record already emitted nor any later record.
C35_HeadersPerEntry ==
    (p_pc = "parsed" /\ EntriesAndStrayDirectives) =>
        /\ Len(p_parsed) = Len(EntriesOf(p_items))
        /\ \A k \in 1..Len(p_parsed) : p_parsed[k].headers = OwnHeaders(EntriesOf(p_items)[k])

\* position in the playlist of the block of the k-th entry
EntryPosition(k) ==
    CHOOSE i \in 1..Len(p_items) :
        /\ p_items[i].kind = "entry"
        /\ Cardinality({j \in 1..i : p_items[j].kind = "entry"}) = k

\* the part of C35 that holds: a record whose url line is followed by the next
\* metadata line, or by nothing, has its own headers, whatever stray directive
\* lines came earlier (the dict is replaced at each metadata line)
C35_OwnHeadersUnlessDirectivesFollow ==
    (p_pc = "parsed" /\ EntriesAndStrayDirectives) =>
        /\ Len(p_parsed) = Len(EntriesOf(p_items))
        /\ \A k \in 1..Len(p_parsed) :
              LET i == EntryPosition(k)
              IN (i = Len(p_items) \/ p_items[i + 1].kind = "entry")
                    => p_parsed[k].headers = OwnHeaders(p_items[i])

(***************************************************************************)
(* resolve_stream_url (app.py) and resolve_link (resolver.py) called on    *)
(* records with local and upstream targets.  p_items holds the arguments   *)
(* and the outcome the resolve endpoint would give, p_parsed the call made *)
(* with the requests it sent to the resolve endpoint and what it returned. *)
(***************************************************************************)
LOCAL_URL == Chars("http://localhost:8080/live/1.m3u8")

TargetChannel(url, signature_placeholder) ==
    [id |-> Chars("rai-1"), name |-> Chars("Rai 1"), genre |-> Chars("RAI"), logo |-> <<>>,
     url |-> url, headers |-> << <<Chars("user-agent"), Chars("ua1")>> >>,
     signature_placeholder |-> signature_placeholder]

TARGET_CHANNELS ==
    { TargetChannel(url, ph) : url \in {LOCAL_URL, Chars("https://up.example/1")},
                               ph \in {KEY_PLACEHOLDER, NONE} }

\* what get_vavoo_signature may have returned
OBTAINED_SIGNATURES == {NONE, SIG_A, SIG_C}

ResolveInit ==
    /\ m3u8_file = NoFile
    /\ p_items \in { << [channel |-> c, signature |-> sg, outcome |-> o] >> :
                        c \in TARGET_CHANNELS, sg \in OBTAINED_SIGNATURES, o \in RESOLVE_OUTCOMES }
    /\ p_parsed = <<>>
    /\ p_pc = "fn"
    /\ FetchIdle
    /\ SysIdle

\* resolve_stream_url(channel, mediaflow_url, mediaflow_psw)
R_ResolveStreamUrl ==
    /\ p_pc = "fn"
    /\ LET in == p_items[1]
       IN p_parsed' = << [fn |-> "resolve_stream_url",
                          requests |-> IF CallsResolve(in.channel, in.signature)
                                       THEN << [url |-> in.channel.url,
                                                signature |-> in.signature] >>
                                       ELSE <<>>,
                          out |-> resolve_stream_url(in.channel, MEDIAFLOW_URL, MEDIAFLOW_PSW,
                                                     in.signature, in.outcome)] >>
    /\ p_pc' = "called"
    /\ UNCHANGED <<m3u8_file, p_items, fetchVars, sysVars>>

\* resolve_link(link, signature), called with the record's url
R_ResolveLink ==
    /\ p_pc = "fn"
    /\ LET in == p_items[1]
       IN p_parsed' = << [fn |-> "resolve_link",
                          requests |-> IF LinkCallsResolve(in.channel.url)
                                       THEN << [url |-> in.channel.url,
                                                signature |-> in.signature] >>
                                       ELSE <<>>,
                          out |-> resolve_link(in.channel.url, in.signature, in.outcome)] >>
    /\ p_pc' = "called"
    /\ UNCHANGED <<m3u8_file, p_items, fetchVars, sysVars>>

ResolveNext == R_ResolveStreamUrl \/ R_ResolveLink

ResolveSpec == ResolveInit /\ [][ResolveNext]_vars

(***************************************************************************)
(* C36                                                                     *)
(***************************************************************************)
\* C36: for a target url that contains "localhost", resolve_stream_url and
\* resolve_link send no request to the resolve endpoint and use the url
\* unchanged (resolve_link returns it, resolve_stream_url passes it as the
\* proxy's destination), and resolve_stream_url still puts the signature it
\* obtained in the proxy url.
C36_LocalTargetNeverSentUpstream ==
    (p_pc = "called" /\ Contains(Chars("localhost"), p_items[1].channel.url)) =>
        LET in == p_items[1]
            call == p_parsed[1]
        IN /\ call.requests = <<>>
           /\ call.fn = "resolve_link" => call.out = in.channel.url
           /\ call.fn = "resolve_stream_url" =>
                 /\ ParamOf(call.out.url, "d") = QuotePlus(in.channel.url)
                 /\ (in.channel.signature_placeholder = KEY_PLACEHOLDER /\ Truthy(in.signature))
                       => ParamOf(call.out.url, "h_mediahubmx-signature") = QuotePlus(in.signature)

\* resolve_stream_url called with a signature on a record that asks for one and
\* whose target is local, when the resolve endpoint would have answered
C36_Witness ==
    /\ p_pc = "called"
    /\ p_parsed[1].fn = "resolve_stream_url"
    /\ p_items[1].channel.url = LOCAL_URL
    /\ p_items[1].channel.signature_placeholder = KEY_PLACEHOLDER
    /\ p_items[1].signature = SIG_A
    /\ p_items[1].outcome = "ok"
    /\ p_parsed[1].requests = <<>>
    /\ ParamOf(p_parsed[1].out.url, "h_mediahubmx-signature") = QuotePlus(SIG_A)

(***************************************************************************)
(* C33                                                                     *)
(***************************************************************************)
\* the addonSig tokens an upstream authentication response can carry: those
\* the generator script receives and the one chiave.py prints
AddonSigTokens == ({r.auth : r \in UPSTREAM_RUNS} \ {NONE}) \cup {SIG_C}

\* C33: the cached signature is absent or an addonSig token of an upstream
\* authentication response, and so is every signature get_vavoo_signature has
\* handed to a caller; no other text is stored or used as the signature.
C33_SignatureIsAddonSigToken ==
    /\ vavoo_signature \in {NONE} \cup AddonSigTokens
    /\ \A t \in THREADS : thr[t].signature \in {NONE} \cup AddonSigTokens

\* what holds instead when chiave.py is absent: the cached signature is absent
\* or the first progress line of the generator script
C33_GeneratorStoresProgressText ==
    ~chiave_exists => vavoo_signature \in {NONE, Strip(PROGRESS_TEXT)}

(***************************************************************************)
(* C34                                                                     *)
(***************************************************************************)
\* a step of a get_vavoo_signature call of thread t
SignatureStep(t) == SigCheck(t) \/ SigChiave(t) \/ SigGenerator(t) \/ SigReturn(t)

\* C34: no step of a get_vavoo_signature call, whether the call hits the
\* cache, renews the signature or fails, changes the playlist file, the
\* persisted channel data or the snapshot cache.
C34_SignatureCallLeavesCatalog ==
    [][(\E t \in THREADS : SignatureStep(t)) =>
          UNCHANGED <<m3u8_file, channels_file, channels_data_cache, channels_data_age>>]_vars

\* the part of C34 that holds: the persisted channel data and the snapshot
\* cache are left alone, and so is the playlist by every step but the run of
\* the generator script
C34_OnlyGeneratorRunTouchesPlaylist ==
    [][\A t \in THREADS :
          /\ SignatureStep(t) => UNCHANGED <<channels_file, channels_data_cache, channels_data_age>>
          /\ (SigCheck(t) \/ SigChiave(t) \/ SigReturn(t)) => UNCHANGED m3u8_file]_vars

(***************************************************************************)
(* C31                                                                     *)
(***************************************************************************)
\* the latest snapshot published: the channel data last persisted
PublishedSnapshot == load_channels_file(channels_file)

\* C31: once a non-empty snapshot has been published, the lookup of a stream
\* request for the id of a channel of the latest published snapshot finds the
\* channel, and the request answers with a non-empty stream list.
C31_StreamFindsPublishedChannel ==
    /\ [][(Lookup /\ FindChannel(PublishedSnapshot, thr["req"].id) # <<>>)
             => thr'["req"].channel # <<>>]_vars
    /\ [](\A t \in THREADS :
             (thr[t].pc = "respond" /\ thr[t].channel # <<>>) => thr[t].result # <<>>)

\* the part of C31 that holds: a channel that the lookup finds always gets a
\* stream descriptor
C31_FoundChannelGetsStream ==
    \A t \in THREADS :
        (thr[t].pc = "respond" /\ thr[t].channel # <<>>) => thr[t].result # <<>>

(***************************************************************************)
(* C32                                                                     *)
(***************************************************************************)
\* the timestamp is fresh while the cache is empty
FreshButEmpty == channels_data_cache = <<>> /\ ~(channels_data_age > CACHE_TTL)

\* C32: whatever the interleaving with the two steps of the refresh thread's
\* invalidation, get_channels_data does not return an empty list while the
\* persisted channel data is non-empty, and when it returns (the refresh
\* thread not being between its two steps) the timestamp is not fresh with
\* the cache empty.
C32_ReloadAtomicWithInvalidation ==
    [][GcdReturn =>
          /\ load_channels_file(channels_file) # <<>> => channels_data_cache # <<>>
          /\ thr["ref"].pc # "c_inv2" => ~FreshButEmpty]_vars

\* the part of C32 that holds: a call that no invalidation step of the refresh
\* thread has interleaved with since it began returns a non-empty list and
\* leaves no fresh timestamp on an empty cache
C32_HoldsWithoutInterleaving ==
    [][(GcdReturn /\ ~hist.inv_cur) => (channels_data_cache # <<>> /\ ~FreshButEmpty)]_vars

====
